---- MODULE Spec2Model ----
(***************************************************************************)
(* LoanDoc Pro: the analysis result produced by analyzeLoanDocument        *)
(* (src/services/geminiService.ts), the App state that installs it         *)
(* (src/App.tsx) and the report's derived values: score bands, readiness   *)
(* tiers, covenant cards and calculateSlack                                *)
(* (src/components/AnalysisReport.tsx).                                    *)
(*                                                                         *)
(* Strings that the code inspects character by character (clause names,    *)
(* the slack inputs, every text the CSV export quotes, the rating) are     *)
(* sequences of one-character strings.  Free text that the code only       *)
(* copies is a TLA+ string.  A JavaScript value that may be                *)
(* undefined/null is None (<<>>) or Some(v) (<<v>>).                       *)
(*                                                                         *)
(* JavaScript numbers are modelled as exact signed rationals extended      *)
(* with -0, +Infinity, -Infinity and NaN; binary rounding is not modelled. *)
(***************************************************************************)
EXTENDS Integers, Sequences, FiniteSets, TLC

VARIABLES inputText, fileName, isLoading, error, result, inFlight,
          fileReads, slackCalculations, isExporting, isFetchingNews,
          newsData, isNewsCollapsed, csvDownload, marketIntel,
          isIntelLoading, intelQuery, lastUpdated, intelCalls, slackCalls

vars == <<inputText, fileName, isLoading, error, result, inFlight,
          fileReads, slackCalculations, isExporting, isFetchingNews,
          newsData, isNewsCollapsed, csvDownload, marketIntel,
          isIntelLoading, intelQuery, lastUpdated, intelCalls, slackCalls>>

\* the Market Pulse state of App and its outstanding requests
intelVars == <<marketIntel, isIntelLoading, intelQuery, lastUpdated, intelCalls>>

\* the state of AnalysisReport beside the slack inputs
reportLocal == <<isExporting, isFetchingNews, newsData, isNewsCollapsed>>

\* outstanding processFile reads modelled at once
MaxFileReads == 2

None == <<>>
Some(v) == <<v>>
IsSome(o) == Len(o) = 1
Get(o) == o[1]

(***************************************************************************)
(* Strings as character sequences                                          *)
(***************************************************************************)
UpperChars == <<"A","B","C","D","E","F","G","H","I","J","K","L","M",
                "N","O","P","Q","R","S","T","U","V","W","X","Y","Z">>
LowerChars == <<"a","b","c","d","e","f","g","h","i","j","k","l","m",
                "n","o","p","q","r","s","t","u","v","w","x","y","z">>
DigitChars == <<"0","1","2","3","4","5","6","7","8","9">>
WhiteSpaceChars == {" "}

IndexOf(seq, c) == CHOOSE i \in 1..Len(seq) : seq[i] = c
InSeq(seq, c) == \E i \in 1..Len(seq) : seq[i] = c

\* the characters that occur in the strings of the model
OtherChars == {" ", ".", "-", "+", "/", ",", "\"", "\n"}
Chars ==
  {UpperChars[i] : i \in 1..Len(UpperChars)} \cup {LowerChars[i] : i \in 1..Len(LowerChars)}
    \cup {DigitChars[i] : i \in 1..Len(DigitChars)} \cup OtherChars

\* String.prototype.toLowerCase, character by character
LowerOf ==
  [c \in Chars |-> IF InSeq(UpperChars, c) THEN LowerChars[IndexOf(UpperChars, c)] ELSE c]
toLowerCase(s) == [i \in 1..Len(s) |-> LowerOf[s[i]]]

\* String.prototype.includes: sub occurs in s as a contiguous run
includes(s, sub) ==
  \E i \in 0..(Len(s) - Len(sub)) : \A j \in 1..Len(sub) : s[i + j] = sub[j]

startsWith(s, pre) == Len(s) >= Len(pre) /\ SubSeq(s, 1, Len(pre)) = pre
Drop(s, k) == SubSeq(s, k + 1, Len(s))

\* String.prototype.trim, for the blank test of handleAnalyze
RECURSIVE trimStart(_)
trimStart(s) ==
  IF s # <<>> /\ s[1] \in WhiteSpaceChars THEN trimStart(Tail(s)) ELSE s
RECURSIVE trimEnd(_)
trimEnd(s) ==
  IF s # <<>> /\ s[Len(s)] \in WhiteSpaceChars
    THEN trimEnd(SubSeq(s, 1, Len(s) - 1)) ELSE s
trim(s) == trimEnd(trimStart(s))

(***************************************************************************)
(* Numbers: sign s (1 or -1), magnitude n/d in lowest terms, or inf / nan  *)
(***************************************************************************)
RECURSIVE GCD(_, _)
GCD(a, b) == IF b = 0 THEN a ELSE GCD(b, a % b)

RECURSIVE Pow10(_)
Pow10(k) == IF k = 0 THEN 1 ELSE 10 * Pow10(k - 1)

NaN == [k |-> "nan", s |-> 1, n |-> 0, d |-> 1]
Inf(sg) == [k |-> "inf", s |-> sg, n |-> 0, d |-> 1]
Fin(sg, num, den) ==
  LET g == GCD(num, den)
  IN  [k |-> "fin", s |-> sg, n |-> num \div g, d |-> den \div g]

isNaN(x) == x.k = "nan"
IsZero(x) == x.k = "fin" /\ x.n = 0

\* x - y
FSub(x, y) ==
  IF isNaN(x) \/ isNaN(y) THEN NaN
  ELSE IF x.k = "inf" /\ y.k = "inf" THEN (IF x.s = y.s THEN NaN ELSE x)
  ELSE IF x.k = "inf" THEN x
  ELSE IF y.k = "inf" THEN Inf(0 - y.s)
  ELSE LET a == x.s * x.n * y.d - y.s * y.n * x.d
           den == x.d * y.d
       IN  IF a = 0 THEN Fin(IF x.s = -1 /\ y.s = 1 THEN -1 ELSE 1, 0, 1)
           ELSE IF a > 0 THEN Fin(1, a, den)
           ELSE Fin(-1, 0 - a, den)

\* x / y
FDiv(x, y) ==
  IF isNaN(x) \/ isNaN(y) THEN NaN
  ELSE IF x.k = "inf" /\ y.k = "inf" THEN NaN
  ELSE IF x.k = "inf" THEN Inf(x.s * y.s)
  ELSE IF y.k = "inf" THEN Fin(x.s * y.s, 0, 1)
  ELSE IF y.n = 0 THEN (IF x.n = 0 THEN NaN ELSE Inf(x.s * y.s))
  ELSE Fin(x.s * y.s, x.n * y.d, x.d * y.n)

\* x * y
FMul(x, y) ==
  IF isNaN(x) \/ isNaN(y) THEN NaN
  ELSE IF x.k = "inf" \/ y.k = "inf"
    THEN (IF IsZero(x) \/ IsZero(y) THEN NaN ELSE Inf(x.s * y.s))
  ELSE Fin(x.s * y.s, x.n * y.n, x.d * y.d)

\* x >= 0
FGeZero(x) ==
  IF isNaN(x) THEN FALSE
  ELSE IF x.k = "inf" THEN x.s = 1
  ELSE x.s = 1 \/ x.n = 0

Hundred == Fin(1, 100, 1)

(***************************************************************************)
(* parseFloat: leading white space, optional sign, then Infinity or the    *)
(* longest decimal literal (digits, fraction, exponent); anything else NaN *)
(***************************************************************************)
IsDigit(c) == InSeq(DigitChars, c)
DigitVal(c) == IndexOf(DigitChars, c) - 1

RECURSIVE DigitPrefix(_)
DigitPrefix(s) ==
  IF s # <<>> /\ IsDigit(s[1]) THEN <<s[1]>> \o DigitPrefix(Tail(s)) ELSE <<>>

RECURSIVE DigitsToNat(_)
DigitsToNat(ds) ==
  IF ds = <<>> THEN 0
  ELSE 10 * DigitsToNat(SubSeq(ds, 1, Len(ds) - 1)) + DigitVal(ds[Len(ds)])

InfinityLit == <<"I","n","f","i","n","i","t","y">>

\* the exponent part of a decimal literal: [eE][+-]?digits, else none (0)
ExponentOf(r) ==
  IF r # <<>> /\ r[1] \in {"e", "E"}
    THEN LET t == Tail(r)
             sg == IF t # <<>> /\ t[1] = "-" THEN -1 ELSE 1
             u == IF t # <<>> /\ t[1] \in {"+", "-"} THEN Tail(t) ELSE t
             ds == DigitPrefix(u)
         IN  IF ds = <<>> THEN 0 ELSE sg * DigitsToNat(ds)
    ELSE 0

parseFloat(str) ==
  LET t == trimStart(str)
      sg == IF t # <<>> /\ t[1] = "-" THEN -1 ELSE 1
      r == IF t # <<>> /\ t[1] \in {"+", "-"} THEN Tail(t) ELSE t
      ip == DigitPrefix(r)
      r2 == Drop(r, Len(ip))
      hasDot == r2 # <<>> /\ r2[1] = "."
      fp == IF hasDot THEN DigitPrefix(Tail(r2)) ELSE <<>>
      r3 == IF hasDot THEN Drop(r2, 1 + Len(fp)) ELSE r2
      ex == ExponentOf(r3)
      mant == DigitsToNat(ip \o fp)
  IN  IF startsWith(r, InfinityLit) THEN Inf(sg)
      ELSE IF ip = <<>> /\ fp = <<>> THEN NaN
      ELSE IF ex >= Len(fp) THEN Fin(sg, mant * Pow10(ex - Len(fp)), 1)
      ELSE Fin(sg, mant, Pow10(Len(fp) - ex))

(***************************************************************************)
(* AnalysisReport: score bands, readiness tiers, covenant cards            *)
(***************************************************************************)
\* getScoreMeta with the upper band starting above 85
getScoreMeta_Above85(score) ==
  IF score > 85 THEN
    [label |-> "High Confidence", text |-> "text-emerald-700",
     bg |-> "bg-emerald-50", border |-> "border-emerald-100",
     accent |-> "border-emerald-500"]
  ELSE IF score >= 70 THEN
    [label |-> "Moderate Review", text |-> "text-amber-700",
     bg |-> "bg-amber-50", border |-> "border-amber-100",
     accent |-> "border-amber-500"]
  ELSE
    [label |-> "Critical / Low Confidence", text |-> "text-rose-700",
     bg |-> "bg-rose-50", border |-> "border-rose-100",
     accent |-> "border-rose-500"]

\* getScoreMeta sending every score outside 0..100 to the lowest band
getScoreMeta_RangeChecked(score) ==
  IF score >= 85 /\ score <= 100 THEN
    [label |-> "High Confidence", text |-> "text-emerald-700",
     bg |-> "bg-emerald-50", border |-> "border-emerald-100",
     accent |-> "border-emerald-500"]
  ELSE IF score >= 70 /\ score <= 100 THEN
    [label |-> "Moderate Review", text |-> "text-amber-700",
     bg |-> "bg-amber-50", border |-> "border-amber-100",
     accent |-> "border-amber-500"]
  ELSE
    [label |-> "Critical / Low Confidence", text |-> "text-rose-700",
     bg |-> "bg-rose-50", border |-> "border-rose-100",
     accent |-> "border-rose-500"]

getScoreMeta(score) ==
  IF score >= 85 THEN
    [label |-> "High Confidence", text |-> "text-emerald-700",
     bg |-> "bg-emerald-50", border |-> "border-emerald-100",
     accent |-> "border-emerald-500"]
  ELSE IF score >= 70 THEN
    [label |-> "Moderate Review", text |-> "text-amber-700",
     bg |-> "bg-amber-50", border |-> "border-amber-100",
     accent |-> "border-amber-500"]
  ELSE
    [label |-> "Critical / Low Confidence", text |-> "text-rose-700",
     bg |-> "bg-rose-50", border |-> "border-rose-100",
     accent |-> "border-rose-500"]

getReadinessColorPill(score) ==
  IF score >= 85 THEN "text-emerald-600 bg-white border-emerald-300 shadow-sm"
  ELSE IF score >= 70 THEN "text-amber-600 bg-white border-amber-300 shadow-sm"
  ELSE "text-rose-600 bg-white border-rose-300 shadow-sm"

\* the gauge colour with its middle tier starting at 75
gaugeColour_From75(score) ==
  IF score >= 85 THEN "text-emerald-500"
  ELSE IF score >= 75 THEN "text-amber-500"
  ELSE "text-rose-500"

\* the class of the gauge arc, computed inline in the JSX
gaugeColour(score) ==
  IF score >= 85 THEN "text-emerald-500"
  ELSE IF score >= 70 THEN "text-amber-500"
  ELSE "text-rose-500"

S_leverage == <<"l","e","v","e","r","a","g","e">>
S_debt == <<"d","e","b","t">>
S_covenant == <<"c","o","v","e","n","a","n","t">>
S_ratio == <<"r","a","t","i","o">>

\* isCovenantName without the 'ratio' alternative
isCovenantName_NoRatio(name) ==
  \/ includes(toLowerCase(name), S_covenant)
  \/ includes(toLowerCase(name), S_leverage)

isCovenantName(name) ==
  \/ includes(toLowerCase(name), S_covenant)
  \/ includes(toLowerCase(name), S_leverage)
  \/ includes(toLowerCase(name), S_ratio)

RECURSIVE filterCovenants(_)
filterCovenants(cs) ==
  IF cs = <<>> THEN <<>>
  ELSE IF isCovenantName(cs[1].name)
    THEN <<cs[1]>> \o filterCovenants(Tail(cs))
    ELSE filterCovenants(Tail(cs))

\* useMemo over result: the clauses that get a slack card
financialCovenants(res) == filterCovenants(res.confidenceAnalysis)

\* calculateSlack with the min-type percentage taken over the limit
calculateSlack_PctOverLimit(limitStr, actualStr, name) ==
  LET limit == parseFloat(limitStr)
      actual == parseFloat(actualStr)
      isMax == \/ includes(toLowerCase(name), S_leverage)
               \/ includes(toLowerCase(name), S_debt)
      slack == IF isMax THEN FSub(limit, actual) ELSE FSub(actual, limit)
      percentage == FMul(FDiv(slack, limit), Hundred)
  IN  IF isNaN(limit) \/ isNaN(actual) THEN None
      ELSE Some([slack |-> slack, percentage |-> percentage,
                 isSafe |-> FGeZero(slack), isMax |-> isMax])

\* calculateSlack with a strict comparison: zero slack reported as a breach
calculateSlack_StrictSafe(limitStr, actualStr, name) ==
  LET limit == parseFloat(limitStr)
      actual == parseFloat(actualStr)
      isMax == \/ includes(toLowerCase(name), S_leverage)
               \/ includes(toLowerCase(name), S_debt)
      slack == IF isMax THEN FSub(limit, actual) ELSE FSub(actual, limit)
      percentage == IF isMax THEN FMul(FDiv(slack, limit), Hundred)
                    ELSE FMul(FDiv(slack, actual), Hundred)
  IN  IF isNaN(limit) \/ isNaN(actual) THEN None
      ELSE Some([slack |-> slack, percentage |-> percentage,
                 isSafe |-> FGeZero(slack) /\ ~IsZero(slack), isMax |-> isMax])

\* calculateSlack matching the name without lower-casing it
calculateSlack_CaseSensitive(limitStr, actualStr, name) ==
  LET limit == parseFloat(limitStr)
      actual == parseFloat(actualStr)
      isMax == includes(name, S_leverage) \/ includes(name, S_debt)
      slack == IF isMax THEN FSub(limit, actual) ELSE FSub(actual, limit)
      percentage == IF isMax THEN FMul(FDiv(slack, limit), Hundred)
                    ELSE FMul(FDiv(slack, actual), Hundred)
  IN  IF isNaN(limit) \/ isNaN(actual) THEN None
      ELSE Some([slack |-> slack, percentage |-> percentage,
                 isSafe |-> FGeZero(slack), isMax |-> isMax])

\* calculateSlack testing only the limit for NaN
calculateSlack_LimitOnly(limitStr, actualStr, name) ==
  LET limit == parseFloat(limitStr)
      actual == parseFloat(actualStr)
      isMax == \/ includes(toLowerCase(name), S_leverage)
               \/ includes(toLowerCase(name), S_debt)
      slack == IF isMax THEN FSub(limit, actual) ELSE FSub(actual, limit)
      percentage == IF isMax THEN FMul(FDiv(slack, limit), Hundred)
                    ELSE FMul(FDiv(slack, actual), Hundred)
  IN  IF isNaN(limit) THEN None
      ELSE Some([slack |-> slack, percentage |-> percentage,
                 isSafe |-> FGeZero(slack), isMax |-> isMax])

\* calculateSlack reporting 0 percent when the denominator is zero
calculateSlack_ZeroGuard(limitStr, actualStr, name) ==
  LET limit == parseFloat(limitStr)
      actual == parseFloat(actualStr)
      isMax == \/ includes(toLowerCase(name), S_leverage)
               \/ includes(toLowerCase(name), S_debt)
      slack == IF isMax THEN FSub(limit, actual) ELSE FSub(actual, limit)
      denominator == IF isMax THEN limit ELSE actual
      percentage == IF IsZero(denominator) THEN Fin(1, 0, 1)
                    ELSE FMul(FDiv(slack, denominator), Hundred)
  IN  IF isNaN(limit) \/ isNaN(actual) THEN None
      ELSE Some([slack |-> slack, percentage |-> percentage,
                 isSafe |-> FGeZero(slack), isMax |-> isMax])

\* calculateSlack that also reads the report's state: nothing while a PDF
\* export runs
calculateSlack_ReadsState(limitStr, actualStr, name) ==
  LET limit == parseFloat(limitStr)
      actual == parseFloat(actualStr)
      isMax == \/ includes(toLowerCase(name), S_leverage)
               \/ includes(toLowerCase(name), S_debt)
      slack == IF isMax THEN FSub(limit, actual) ELSE FSub(actual, limit)
      percentage == IF isMax THEN FMul(FDiv(slack, limit), Hundred)
                    ELSE FMul(FDiv(slack, actual), Hundred)
  IN  IF isNaN(limit) \/ isNaN(actual) \/ isExporting THEN None
      ELSE Some([slack |-> slack, percentage |-> percentage,
                 isSafe |-> FGeZero(slack), isMax |-> isMax])

calculateSlack(limitStr, actualStr, name) ==
  LET limit == parseFloat(limitStr)
      actual == parseFloat(actualStr)
      isMax == \/ includes(toLowerCase(name), S_leverage)
               \/ includes(toLowerCase(name), S_debt)
      slack == IF isMax THEN FSub(limit, actual) ELSE FSub(actual, limit)
      percentage == IF isMax THEN FMul(FDiv(slack, limit), Hundred)
                    ELSE FMul(FDiv(slack, actual), Hundred)
  IN  IF isNaN(limit) \/ isNaN(actual) THEN None
      ELSE Some([slack |-> slack, percentage |-> percentage,
                 isSafe |-> FGeZero(slack), isMax |-> isMax])

EmptyText == <<>>
NoValues == [limit |-> EmptyText, actual |-> EmptyText]

\* useState({}): no card edited yet
NoCalculations == [k \in {} |-> NoValues]

\* slackCalculations[cov.name] || { limit: '', actual: '' }
cardValues(sc, name) == IF name \in DOMAIN sc THEN sc[name] ELSE NoValues

cardCalculation(sc, name) ==
  calculateSlack(cardValues(sc, name).limit, cardValues(sc, name).actual, name)

\* x < y for numbers; false when either is NaN, and -0 is not below 0
FLess(x, y) ==
  IF isNaN(x) \/ isNaN(y) THEN FALSE
  ELSE IF x.k = "inf" THEN x.s = -1 /\ ~(y.k = "inf" /\ y.s = -1)
  ELSE IF y.k = "inf" THEN y.s = 1
  ELSE x.s * x.n * y.d < y.s * y.n * x.d

\* Math.max and Math.min of two numbers: NaN if either is NaN
MathMax(x, y) == IF isNaN(x) \/ isNaN(y) THEN NaN ELSE IF FLess(x, y) THEN y ELSE x
MathMin(x, y) == IF isNaN(x) \/ isNaN(y) THEN NaN ELSE IF FLess(y, x) THEN y ELSE x

\* width: Math.min(100, Math.max(0, calculation.percentage)) percent
barWidth(calculation) ==
  MathMin(Hundred, MathMax(Fin(1, 0, 1), calculation.percentage))

\* what the card shows below its two inputs
cardVerdict(calculation) ==
  IF IsSome(calculation)
    THEN (IF Get(calculation).isSafe THEN "Compliant" ELSE "Breach Risk")
    ELSE "Enter values to calculate slack"

\* the status text inside the readiness pill
displayedStatus(res) == Get(res.dealReadiness).status

(***************************************************************************)
(* handleExportCSV: the text of the exported file                          *)
(***************************************************************************)
headers ==
  <<<<"C","l","a","u","s","e"," ","N","a","m","e">>,
    <<"C","o","n","f","i","d","e","n","c","e"," ","S","c","o","r","e"," ","(","%",")">>,
    <<"R","e","v","i","e","w"," ","R","e","q","u","i","r","e","d">>,
    <<"P","r","o","v","i","s","i","o","n"," ","S","u","m","m","a","r","y">>,
    <<"A","u","d","i","t"," ","L","o","g","i","c">>,
    <<"M","a","r","k","e","t"," ","S","t","a","n","d","a","r","d"," ","C","o","n","t","e","x","t">>,
    <<"D","e","v","i","a","t","i","o","n"," ","A","n","a","l","y","s","i","s">>,
    <<"C","o","u","n","t","e","r","p","a","r","t","y"," ","I","m","p","a","c","t">>>>

\* doubleQuotes that leaves every quote single
RECURSIVE doubleQuotes_Unchanged(_)
doubleQuotes_Unchanged(s) ==
  IF s = <<>> THEN <<>>
  ELSE <<s[1]>> \o doubleQuotes_Unchanged(Tail(s))

\* s.replace(/"/g, '""')
RECURSIVE doubleQuotes(_)
doubleQuotes(s) ==
  IF s = <<>> THEN <<>>
  ELSE (IF s[1] = "\"" THEN <<"\"", "\"">> ELSE <<s[1]>>) \o doubleQuotes(Tail(s))

\* `"${s.replace(/"/g, '""')}"`
quoted(s) == <<"\"">> \o doubleQuotes(s) \o <<"\"">>

\* the decimal text Array.prototype.join gives an integer
RECURSIVE digitsOf(_)
digitsOf(n) ==
  IF n < 10 THEN <<DigitChars[n + 1]>>
  ELSE digitsOf(n \div 10) \o <<DigitChars[(n % 10) + 1]>>
numberToString(n) == IF n < 0 THEN <<"-">> \o digitsOf(0 - n) ELSE digitsOf(n)

\* Array.prototype.join
RECURSIVE join(_, _)
join(parts, sep) ==
  IF parts = <<>> THEN <<>>
  ELSE IF Len(parts) = 1 THEN parts[1]
  ELSE parts[1] \o sep \o join(Tail(parts), sep)

YES == <<"Y","E","S">>
NO == <<"N","O">>

\* csvRow with the summary and the reason in each other's column
csvRow_ReasonFirst(clause) ==
  <<quoted(clause.name),
    numberToString(clause.confidenceScore),
    IF clause.reviewRequired THEN YES ELSE NO,
    quoted(clause.reason),
    quoted(clause.summary),
    quoted(clause.lmaComparison.standardBenchmark),
    quoted(clause.lmaComparison.deviations),
    quoted(clause.lmaComparison.impact)>>

\* one entry of rows; a || "" leaves a string as it is
csvRow(clause) ==
  <<quoted(clause.name),
    numberToString(clause.confidenceScore),
    IF clause.reviewRequired THEN YES ELSE NO,
    quoted(clause.summary),
    quoted(clause.reason),
    quoted(clause.lmaComparison.standardBenchmark),
    quoted(clause.lmaComparison.deviations),
    quoted(clause.lmaComparison.impact)>>

csvContent(res) ==
  join(<<join(headers, <<",">>)>> \o
         [i \in 1..Len(res.confidenceAnalysis) |->
            join(csvRow(res.confidenceAnalysis[i]), <<",">>)],
       <<"\n">>)

(***************************************************************************)
(* analyzeLoanDocument: the mapping of the parsed response to the result   *)
(***************************************************************************)
DefaultBenchmark ==
  <<"M","a","r","k","e","t"," ","s","t","a","n","d","a","r","d"," ","p","o","s","i","t","i","o","n",".">>
DefaultImpact ==
  <<"R","e","v","i","e","w"," ","r","e","q","u","i","r","e","d"," ","f","o","r"," ","s","p","e","c","i","f","i","c">> \o
  <<" ","c","o","m","m","e","r","c","i","a","l"," ","i","m","p","a","c","t",".">>
AnalyzeFailedMessage == "Failed to analyze document. The institutional logic engine encountered an error."

\* SYSTEM_PROMPT, phase 2: the status the collaborator is told to give a score
readinessStatusRule(score) ==
  IF score >= 85 THEN "Execution Ready"
  ELSE IF score >= 70 THEN "Ready with Review"
  ELSE "Not Execution Ready"

\* SYSTEM_PROMPT, phase 1: the three market-benchmark classes
D_Standard == <<"S","t","a","n","d","a","r","d">>
D_SlightlyAggressive == <<"S","l","i","g","h","t","l","y"," ","A","g","g","r","e","s","s","i","v","e">>
D_AggressiveNonStandard == <<"A","g","g","r","e","s","s","i","v","e","/","N","o","n","-","S","t","a","n","d","a","r","d">>

\* SYSTEM_PROMPT, phase 1: "Flag if confidence < 75% or Aggressive"
reviewFlagRule(score, deviation) ==
  score < 75 \/ deviation = D_AggressiveNonStandard

\* a || b on an optional string: undefined and '' are falsy
OrElse(o, dflt) == IF IsSome(o) /\ Get(o) # <<>> THEN Get(o) ELSE dflt

R_Low == <<"L","o","w">>
R_Medium == <<"M","e","d","i","u","m">>
R_High == <<"H","i","g","h">>
R_Severe == <<"S","e","v","e","r","e">>

\* mapClause with the impact default used for the benchmark as well
mapClause_OneDefault(c) ==
  [name |-> c.clause_name,
   summary |-> c.extracted_text,
   confidenceScore |-> c.confidence_score,
   reviewRequired |-> c.review_required,
   reason |-> c.explanation,
   lmaComparison |->
     [standardBenchmark |-> OrElse(c.lma_benchmark_context, DefaultImpact),
      deviations |-> c.market_deviation,
      impact |-> OrElse(c.potential_impact, DefaultImpact)]]

mapClause(c) ==
  [name |-> c.clause_name,
   summary |-> c.extracted_text,
   confidenceScore |-> c.confidence_score,
   reviewRequired |-> c.review_required,
   reason |-> c.explanation,
   lmaComparison |->
     [standardBenchmark |-> OrElse(c.lma_benchmark_context, DefaultBenchmark),
      deviations |-> c.market_deviation,
      impact |-> OrElse(c.potential_impact, DefaultImpact)]]

\* JSON.parse(response.text || '{}'): a thrown call and unparsable text have
\* no data; empty text parses to the object with no sections
EmptyData ==
  [overview |-> None, clauses |-> None, dealReadiness |-> None,
   riskAssessment |-> None, commercialSummary |-> None]

parsedData(resp) ==
  IF resp.kind = "json" THEN Some(resp.data)
  ELSE IF resp.kind = "empty" THEN Some(EmptyData)
  ELSE None

\* data.clauses.map and data.riskAssessment.overallRating throw on undefined
mappingThrows(data) == data.clauses = None \/ data.riskAssessment = None

\* buildResult keeping the trimmed text
buildResult_TrimmedText(data, text) ==
  [overview |-> data.overview,
   confidenceAnalysis |->
     [i \in 1..Len(Get(data.clauses)) |-> mapClause(Get(data.clauses)[i])],
   riskAssessment |->
     [overallRating |-> OrElse(Get(data.riskAssessment).overallRating, R_Medium),
      summary |-> Get(data.riskAssessment).summary],
   commercialSummary |-> data.commercialSummary,
   dealReadiness |-> data.dealReadiness,
   rawText |-> trim(text)]

buildResult(data, text) ==
  [overview |-> data.overview,
   confidenceAnalysis |->
     [i \in 1..Len(Get(data.clauses)) |-> mapClause(Get(data.clauses)[i])],
   riskAssessment |->
     [overallRating |-> OrElse(Get(data.riskAssessment).overallRating, R_Medium),
      summary |-> Get(data.riskAssessment).summary],
   commercialSummary |-> data.commercialSummary,
   dealReadiness |-> data.dealReadiness,
   rawText |-> text]

\* Some(result) when the promise resolves, None when it rejects
analyzeLoanDocument(text, resp) ==
  IF parsedData(resp) = None \/ mappingThrows(Get(parsedData(resp))) THEN None
  ELSE Some(buildResult(Get(parsedData(resp)), text))

(***************************************************************************)
(* The App and the report as a state machine.  inFlight holds, for each    *)
(* outstanding analyzeLoanDocument call, the text it was given and the     *)
(* collaborator's reply once that has arrived; fileReads counts the        *)
(* outstanding processFile reads; csvDownload is the content of the file   *)
(* the last CSV export handed to the browser.  A PDF export or a news      *)
(* request of the mounted report is outstanding exactly while              *)
(* isExporting or isFetchingNews is set: one that outlives the report      *)
(* settles on an unmounted component and changes nothing.                  *)
(***************************************************************************)
Init ==
  /\ inputText = EmptyText
  /\ fileName = None
  /\ isLoading = FALSE
  /\ error = None
  /\ result = None
  /\ inFlight = <<>>
  /\ fileReads = 0
  /\ slackCalculations = NoCalculations
  /\ isExporting = FALSE
  /\ isFetchingNews = FALSE
  /\ newsData = None
  /\ isNewsCollapsed = FALSE
  /\ csvDownload = None
  /\ marketIntel = None
  /\ isIntelLoading = TRUE
  /\ intelQuery = ""
  /\ lastUpdated = None
  /\ intelCalls = <<[query |-> None, outcome |-> None]>>
  /\ slackCalls = {}

\* the render of AnalysisReport reads these three sections unguarded
reportRenders(res) ==
  IsSome(res.overview) /\ IsSome(res.dealReadiness) /\ IsSome(res.commercialSummary)

\* App returns the report instead of the workspace once result is set
reportShown == IsSome(result) /\ reportRenders(Get(result))
workspaceShown == result = None
\* the Covenant Slack Calculator section: financialCovenants.length > 0
slackSectionShown == reportShown /\ Len(financialCovenants(Get(result))) > 0

ProcessFailedMessage == "Document processing failed. Please ensure the file is not encrypted."
ConnectionFailedMessage == "Institutional API connection failed."

\* processFile up to its first await; the drop zone shows while the text is empty
processFileStart(names) ==
  /\ workspaceShown
  /\ inputText = EmptyText
  /\ fileReads < MaxFileReads
  /\ \E f \in names : fileName' = Some(f)
  /\ error' = None
  /\ fileReads' = fileReads + 1
  /\ UNCHANGED <<inputText, isLoading, result, inFlight, slackCalculations,
                 reportLocal, csvDownload>>
  /\ UNCHANGED <<intelVars, slackCalls>>

\* processFile after file.text() / mammoth resolved
processFileDone(docs) ==
  /\ fileReads > 0
  /\ fileReads' = fileReads - 1
  /\ \E t \in docs : inputText' = t
  /\ UNCHANGED <<fileName, isLoading, error, result, inFlight, slackCalculations,
                 reportLocal, csvDownload>>
  /\ UNCHANGED <<intelVars, slackCalls>>

\* processFile after the read rejected
processFileFailed ==
  /\ fileReads > 0
  /\ fileReads' = fileReads - 1
  /\ error' = Some(ProcessFailedMessage)
  /\ UNCHANGED <<inputText, fileName, isLoading, result, inFlight, slackCalculations,
                 reportLocal, csvDownload>>
  /\ UNCHANGED <<intelVars, slackCalls>>

\* textarea onChange
editInputText(docs) ==
  /\ workspaceShown
  /\ inputText # EmptyText
  /\ \E t \in docs : inputText' = t
  /\ UNCHANGED <<fileName, isLoading, error, result, inFlight, fileReads, slackCalculations,
                 reportLocal, csvDownload>>
  /\ UNCHANGED <<intelVars, slackCalls>>

\* the Discard button
discard ==
  /\ workspaceShown
  /\ inputText # EmptyText
  /\ inputText' = EmptyText
  /\ fileName' = None
  /\ UNCHANGED <<isLoading, error, result, inFlight, fileReads, slackCalculations,
                 reportLocal, csvDownload>>
  /\ UNCHANGED <<intelVars, slackCalls>>

\* handleAnalyze with a button that stays enabled while a request is out
handleAnalyze_NotDisabled ==
  /\ workspaceShown
  /\ inputText # EmptyText
  /\ Len(inFlight) < 2
  /\ IF trim(inputText) = EmptyText
       THEN UNCHANGED <<isLoading, error, inFlight>>
       ELSE /\ isLoading' = TRUE
            /\ error' = None
            /\ inFlight' = Append(inFlight, [text |-> inputText, reply |-> None])
  /\ UNCHANGED <<inputText, fileName, result, fileReads, slackCalculations,
                 reportLocal, csvDownload>>
  /\ UNCHANGED <<intelVars, slackCalls>>

\* handleAnalyze without the early return for a blank text
handleAnalyze_NoTrim ==
  /\ workspaceShown
  /\ inputText # EmptyText
  /\ ~isLoading
  /\ isLoading' = TRUE
  /\ error' = None
  /\ inFlight' = Append(inFlight, [text |-> inputText, reply |-> None])
  /\ UNCHANGED <<inputText, fileName, result, fileReads, slackCalculations,
                 reportLocal, csvDownload>>
  /\ UNCHANGED <<intelVars, slackCalls>>

\* handleAnalyze up to its await; the button is rendered for a non-empty text
\* and disabled while isLoading
handleAnalyze ==
  /\ workspaceShown
  /\ inputText # EmptyText
  /\ ~isLoading
  /\ IF trim(inputText) = EmptyText
       THEN UNCHANGED <<isLoading, error, inFlight>>
       ELSE /\ isLoading' = TRUE
            /\ error' = None
            /\ inFlight' = Append(inFlight, [text |-> inputText, reply |-> None])
  /\ UNCHANGED <<inputText, fileName, result, fileReads, slackCalculations,
                 reportLocal, csvDownload>>
  /\ UNCHANGED <<intelVars, slackCalls>>

RemoveAt(seq, i) == SubSeq(seq, 1, i - 1) \o SubSeq(seq, i + 1, Len(seq))

\* ai.models.generateContent settles inside analyzeLoanDocument
generateContentSettle(responses) ==
  /\ \E i \in 1..Len(inFlight) : \E resp \in responses :
       /\ inFlight[i].reply = None
       /\ inFlight' = [inFlight EXCEPT ![i].reply = Some(resp)]
  /\ UNCHANGED <<inputText, fileName, isLoading, error, result, fileReads,
                 slackCalculations, reportLocal, csvDownload>>
  /\ UNCHANGED <<intelVars, slackCalls>>

\* handleAnalyzeSettle with a catch block that reports nothing
handleAnalyzeSettle_SilentCatch ==
  \E i \in 1..Len(inFlight) :
    LET analysis == analyzeLoanDocument(inFlight[i].text, Get(inFlight[i].reply))
    IN  /\ IsSome(inFlight[i].reply)
        /\ inFlight' = RemoveAt(inFlight, i)
        /\ isLoading' = FALSE
        /\ IF IsSome(analysis)
             THEN result' = analysis /\ UNCHANGED error
             ELSE UNCHANGED <<error, result>>
        /\ UNCHANGED <<inputText, fileName, fileReads, slackCalculations,
                       reportLocal, csvDownload>>
        /\ UNCHANGED <<intelVars, slackCalls>>

\* handleAnalyzeSettle whose result refers to the text of the textarea at
\* the time the reply arrives
handleAnalyzeSettle_ReadsInputText ==
  \E i \in 1..Len(inFlight) :
    LET analysis == analyzeLoanDocument(inputText, Get(inFlight[i].reply))
    IN  /\ IsSome(inFlight[i].reply)
        /\ inFlight' = RemoveAt(inFlight, i)
        /\ isLoading' = FALSE
        /\ IF IsSome(analysis)
             THEN result' = analysis /\ UNCHANGED error
             ELSE /\ error' = Some(IF AnalyzeFailedMessage # ""
                                     THEN AnalyzeFailedMessage
                                     ELSE ConnectionFailedMessage)
                  /\ UNCHANGED result
        /\ UNCHANGED <<inputText, fileName, fileReads, slackCalculations,
                       reportLocal, csvDownload>>
        /\ UNCHANGED <<intelVars, slackCalls>>

\* handleAnalyzeSettle that clears isLoading in the try block only
handleAnalyzeSettle_NoFinally ==
  \E i \in 1..Len(inFlight) :
    LET analysis == analyzeLoanDocument(inFlight[i].text, Get(inFlight[i].reply))
    IN  /\ IsSome(inFlight[i].reply)
        /\ inFlight' = RemoveAt(inFlight, i)
        /\ IF IsSome(analysis)
             THEN result' = analysis /\ isLoading' = FALSE /\ UNCHANGED error
             ELSE /\ error' = Some(IF AnalyzeFailedMessage # ""
                                     THEN AnalyzeFailedMessage
                                     ELSE ConnectionFailedMessage)
                  /\ UNCHANGED <<result, isLoading>>
        /\ UNCHANGED <<inputText, fileName, fileReads, slackCalculations,
                       reportLocal, csvDownload>>
        /\ UNCHANGED <<intelVars, slackCalls>>

\* the rest of analyzeLoanDocument, then handleAnalyze after its await:
\* setResult or setError, then finally
handleAnalyzeSettle ==
  \E i \in 1..Len(inFlight) :
    LET analysis == analyzeLoanDocument(inFlight[i].text, Get(inFlight[i].reply))
    IN  /\ IsSome(inFlight[i].reply)
        /\ inFlight' = RemoveAt(inFlight, i)
        /\ isLoading' = FALSE
        /\ IF IsSome(analysis)
             THEN result' = analysis /\ UNCHANGED error
             ELSE /\ error' = Some(IF AnalyzeFailedMessage # ""
                                     THEN AnalyzeFailedMessage
                                     ELSE ConnectionFailedMessage)
                  /\ UNCHANGED result
        /\ UNCHANGED <<inputText, fileName, fileReads, slackCalculations,
                       reportLocal, csvDownload>>
        /\ UNCHANGED <<intelVars, slackCalls>>

\* New Audit; the report unmounts and its local state is dropped
onReset ==
  /\ reportShown
  /\ result' = None
  /\ inputText' = EmptyText
  /\ fileName' = None
  /\ slackCalculations' = NoCalculations
  /\ isExporting' = FALSE
  /\ isFetchingNews' = FALSE
  /\ newsData' = None
  /\ isNewsCollapsed' = FALSE
  /\ UNCHANGED <<isLoading, error, inFlight, fileReads, csvDownload>>
  /\ UNCHANGED <<intelVars, slackCalls>>

\* setLimit without the spread of the other names' values
setLimit_NoSpread(sc, name, text) ==
  [k \in {name} |-> [cardValues(sc, name) EXCEPT !.limit = text]]

\* {...slackCalculations, [cov.name]: {...values, limit: e.target.value}}
setLimit(sc, name, text) ==
  [k \in DOMAIN sc \cup {name} |->
     IF k = name THEN [cardValues(sc, name) EXCEPT !.limit = text] ELSE sc[k]]

setActual(sc, name, text) ==
  [k \in DOMAIN sc \cup {name} |->
     IF k = name THEN [cardValues(sc, name) EXCEPT !.actual = text] ELSE sc[k]]

\* editLimit that also stores the typed limit in the clause it belongs to
editLimit_WritesResult(texts) ==
  /\ reportShown
  /\ LET covs == financialCovenants(Get(result))
     IN  \E i \in 1..Len(covs) : \E t \in texts :
           /\ slackCalculations' = setLimit(slackCalculations, covs[i].name, t)
           /\ result' =
                Some([Get(result) EXCEPT !.confidenceAnalysis =
                        [k \in 1..Len(@) |->
                           IF @[k].name = covs[i].name
                             THEN [@[k] EXCEPT !.summary = t] ELSE @[k]]])
  /\ UNCHANGED <<inputText, fileName, isLoading, error, inFlight, fileReads,
                 reportLocal, csvDownload>>
  /\ UNCHANGED <<intelVars, slackCalls>>

\* onChange of a card's Agreement Limit input
editLimit(texts) ==
  /\ reportShown
  /\ LET covs == financialCovenants(Get(result))
     IN  \E i \in 1..Len(covs) : \E t \in texts :
           slackCalculations' = setLimit(slackCalculations, covs[i].name, t)
  /\ UNCHANGED <<inputText, fileName, isLoading, error, result, inFlight, fileReads,
                 reportLocal, csvDownload>>
  /\ UNCHANGED <<intelVars, slackCalls>>

\* onChange of a card's Current Actual input
editActual(texts) ==
  /\ reportShown
  /\ LET covs == financialCovenants(Get(result))
     IN  \E i \in 1..Len(covs) : \E t \in texts :
           slackCalculations' = setActual(slackCalculations, covs[i].name, t)
  /\ UNCHANGED <<inputText, fileName, isLoading, error, result, inFlight, fileReads,
                 reportLocal, csvDownload>>
  /\ UNCHANGED <<intelVars, slackCalls>>

\* Export CSV: the file is built from result and handed to the browser
handleExportCSV ==
  /\ reportShown
  /\ csvDownload' = Some(csvContent(Get(result)))
  /\ UNCHANGED <<inputText, fileName, isLoading, error, result, inFlight, fileReads,
                 slackCalculations, reportLocal>>
  /\ UNCHANGED <<intelVars, slackCalls>>

\* Download PDF up to its await; the button is disabled while isExporting
handleExport ==
  /\ reportShown
  /\ ~isExporting
  /\ isExporting' = TRUE
  /\ UNCHANGED <<inputText, fileName, isLoading, error, result, inFlight, fileReads,
                 slackCalculations, isFetchingNews, newsData, isNewsCollapsed,
                 csvDownload>>
  /\ UNCHANGED <<intelVars, slackCalls>>

\* html2pdf saved the file, or it threw and window.print() ran; then finally
handleExportSettle ==
  /\ reportShown
  /\ isExporting
  /\ isExporting' = FALSE
  /\ UNCHANGED <<inputText, fileName, isLoading, error, result, inFlight, fileReads,
                 slackCalculations, isFetchingNews, newsData, isNewsCollapsed,
                 csvDownload>>
  /\ UNCHANGED <<intelVars, slackCalls>>

\* Fetch Latest Market News up to its await; disabled while isFetchingNews
handleFetchNews ==
  /\ reportShown
  /\ ~isFetchingNews
  /\ isFetchingNews' = TRUE
  /\ UNCHANGED <<inputText, fileName, isLoading, error, result, inFlight, fileReads,
                 slackCalculations, isExporting, newsData, isNewsCollapsed,
                 csvDownload>>
  /\ UNCHANGED <<intelVars, slackCalls>>

NoIntelligenceFound == "No intelligence found."

\* chunks.filter(chunk => chunk.web).map(...): title || "Source"
RECURSIVE sourcesOf(_)
sourcesOf(chunks) ==
  IF chunks = <<>> THEN <<>>
  ELSE IF IsSome(chunks[1].web)
    THEN <<[title |-> IF Get(chunks[1].web).title \in {None, Some("")}
                        THEN "Source" ELSE Get(Get(chunks[1].web).title),
            uri |-> Get(chunks[1].web).uri]>> \o sourcesOf(Tail(chunks))
    ELSE sourcesOf(Tail(chunks))

\* handleFetchNews after its await: setNewsData and setIsNewsCollapsed(false),
\* or the catch that only logs; then finally
handleFetchNewsSettle(newsReplies) ==
  /\ reportShown
  /\ isFetchingNews
  /\ isFetchingNews' = FALSE
  /\ \E reply \in newsReplies :
       IF reply.kind = "throw"
         THEN UNCHANGED <<newsData, isNewsCollapsed>>
         ELSE /\ newsData' =
                   Some([summary |-> IF reply.text \in {None, Some("")}
                                       THEN NoIntelligenceFound ELSE Get(reply.text),
                         sources |-> sourcesOf(reply.chunks)])
              /\ isNewsCollapsed' = FALSE
  /\ UNCHANGED <<inputText, fileName, isLoading, error, result, inFlight, fileReads,
                 slackCalculations, isExporting, csvDownload>>
  /\ UNCHANGED <<intelVars, slackCalls>>

\* the header of the news panel, rendered once there is newsData
toggleNewsCollapsed ==
  /\ reportShown
  /\ IsSome(newsData)
  /\ isNewsCollapsed' = ~isNewsCollapsed
  /\ UNCHANGED <<inputText, fileName, isLoading, error, result, inFlight, fileReads,
                 slackCalculations, isExporting, isFetchingNews, newsData,
                 csvDownload>>
  /\ UNCHANGED <<intelVars, slackCalls>>

MaxCalls == 2

\* the render of one slack card calls calculateSlack(values.limit,
\* values.actual, cov.name); slackCalls keeps the calls made so far with
\* what each returned
renderCard ==
  /\ reportShown
  /\ Cardinality(slackCalls) < MaxCalls
  /\ LET covs == financialCovenants(Get(result))
     IN  \E i \in 1..Len(covs) :
           LET values == cardValues(slackCalculations, covs[i].name)
               call == [limit |-> values.limit, actual |-> values.actual,
                        name |-> covs[i].name,
                        outcome |-> calculateSlack(values.limit, values.actual,
                                                   covs[i].name)]
           IN  /\ call \notin slackCalls
               /\ slackCalls' = slackCalls \cup {call}
  /\ UNCHANGED <<inputText, fileName, isLoading, error, result, inFlight, fileReads,
                 slackCalculations, reportLocal, csvDownload, intelVars>>

MaxIntelCalls == 2

DefaultIntelQuery == "latest news and trends in the syndicated loan market and LMA standards 2024-2025"

\* query || "latest news and trends ..."
finalQuery(query) == IF query \in {None, Some("")} THEN DefaultIntelQuery ELSE Get(query)

\* onChange of the search input of the Market Pulse panel
setIntelQuery(queries) ==
  /\ workspaceShown
  /\ \E q \in queries : intelQuery' = q
  /\ UNCHANGED <<inputText, fileName, isLoading, error, result, inFlight, fileReads,
                 slackCalculations, reportLocal, csvDownload, marketIntel,
                 isIntelLoading, lastUpdated, intelCalls, slackCalls>>

\* handleIntelSearch: loadMarketPulse(intelQuery) up to its await; intelCalls
\* lists every request issued since the mount, the mount's own first
handleIntelSearch ==
  /\ workspaceShown
  /\ Len(intelCalls) < MaxIntelCalls
  /\ isIntelLoading' = TRUE
  /\ intelCalls' = Append(intelCalls, [query |-> Some(intelQuery), outcome |-> None])
  /\ UNCHANGED <<inputText, fileName, isLoading, error, result, inFlight, fileReads,
                 slackCalculations, reportLocal, csvDownload, marketIntel,
                 intelQuery, lastUpdated, slackCalls>>

\* loadMarketPulse after its await: setMarketIntel and setLastUpdated, or
\* the catch that only logs; then finally.  The time shown never runs back.
loadMarketPulseSettle(intelReplies, times) ==
  /\ \E i \in 1..Len(intelCalls) : \E reply \in intelReplies[finalQuery(intelCalls[i].query)] :
       /\ intelCalls[i].outcome = None
       /\ intelCalls' = [intelCalls EXCEPT ![i].outcome = Some(reply.kind)]
       /\ IF reply.kind = "throw"
            THEN UNCHANGED <<marketIntel, lastUpdated>>
            ELSE /\ marketIntel' = Some([summary |-> reply.text,
                                         sources |-> sourcesOf(reply.chunks)])
                 /\ \E t \in times :
                      /\ \A u \in times : lastUpdated = Some(u) => u <= t
                      /\ lastUpdated' = Some(t)
  /\ isIntelLoading' = FALSE
  /\ UNCHANGED <<inputText, fileName, isLoading, error, result, inFlight, fileReads,
                 slackCalculations, reportLocal, csvDownload, intelQuery, slackCalls>>

(***************************************************************************)
(* What the user and the collaborator may supply                           *)
(***************************************************************************)
N_LeverageRatio == <<"L","e","v","e","r","a","g","e"," ","R","a","t","i","o">>
N_InterestCoverRatio == <<"I","n","t","e","r","e","s","t"," ","C","o","v","e","r"," ","R","a","t","i","o">>
N_DebtServiceCoverageRatio == <<"D","e","b","t"," ","S","e","r","v","i","c","e"," ","C","o","v","e","r","a","g","e"," ","R","a","t","i","o">>
N_NETDEBTCOVENANT == <<"N","E","T"," ","D","E","B","T"," ","C","O","V","E","N","A","N","T">>
N_FinancialCovenants == <<"F","i","n","a","n","c","i","a","l"," ","C","o","v","e","n","a","n","t","s">>
N_DebitRatio == <<"D","e","b","i","t"," ","R","a","t","i","o">>
N_LEVERAGE == <<"L","E","V","E","R","A","G","E">>
N_EventsOfDefault == <<"E","v","e","n","t","s"," ","o","f"," ","D","e","f","a","u","l","t">>
N_FacilityAmount == <<"F","a","c","i","l","i","t","y"," ","A","m","o","u","n","t">>

ClauseNames ==
  {N_LeverageRatio, N_InterestCoverRatio, N_DebtServiceCoverageRatio,
   N_NETDEBTCOVENANT, N_FinancialCovenants, N_DebitRatio, N_LEVERAGE,
   N_EventsOfDefault, N_FacilityAmount}

\* texts typed into a card's inputs
SlackTexts ==
  {<<>>, <<"a","b","c">>, <<".">>, <<"0">>, <<"-","0">>, <<"2",".","0">>,
   <<"2",".","1">>, <<"2",".","5">>, <<"3",".","5">>, <<"4",".","0">>,
   <<"-","1">>, <<"-","2">>, <<"3",".","5","x">>, <<" ","2">>,
   <<"1","e","1">>, <<".","5">>, <<"I","n","f","i","n","i","t","y">>,
   <<"-","I","n","f","i","n","i","t","y">>}
FewTexts == {<<>>, <<"3",".","5">>}

FileNames == {"facility.txt", "facility.docx"}
Docs == {<<>>, <<"L","M","A">>, <<" ">>, <<" ","L","M","A"," ">>}
OneDoc == {<<"L","M","A">>}
PaddedDocs == {<<" ","L","M","A"," ">>}

Deviations == {D_Standard, D_SlightlyAggressive, D_AggressiveNonStandard}
Statuses == {"Execution Ready", "Ready with Review", "Not Execution Ready"}

\* scores the collaborator may return: 0..100 and ScoreMargin beyond each end
ScoreMargin == 3
Scores == (0 - ScoreMargin)..(100 + ScoreMargin)

T_provision == <<"p","r","o","v","i","s","i","o","n">>
T_rationale == <<"r","a","t","i","o","n","a","l","e">>

Clause(name, score, deviation, review) ==
  [clause_name |-> name, extracted_text |-> T_provision,
   confidence_score |-> score, market_deviation |-> deviation,
   review_required |-> review, explanation |-> T_rationale,
   lma_benchmark_context |-> None, potential_impact |-> None]

Payload(clauses, score, status) ==
  [overview |-> Some("overview"),
   clauses |-> Some(clauses),
   dealReadiness |-> Some([score |-> score, status |-> status]),
   riskAssessment |-> Some([overallRating |-> Some(R_Low), summary |-> "summary"]),
   commercialSummary |-> Some("commercial")]

JsonResponse(data) == [kind |-> "json", data |-> data]
ThrownResponse == [kind |-> "throw", data |-> EmptyData]
EmptyResponse == [kind |-> "empty", data |-> EmptyData]
MalformedResponse == [kind |-> "malformed", data |-> EmptyData]

\* one clause of every name
NameResponses ==
  {JsonResponse(Payload(<<Clause(n, 90, D_Standard, FALSE)>>, 90, "Execution Ready")) :
     n \in ClauseNames}

\* every clause score with every deviation and flag; every readiness score
\* with every status
ClauseScoreResponses ==
  {JsonResponse(Payload(<<Clause(N_LeverageRatio, sc, dv, rv)>>, 90, "Execution Ready")) :
     sc \in Scores, dv \in Deviations, rv \in BOOLEAN}
ReadinessResponses ==
  {JsonResponse(Payload(<<Clause(N_LeverageRatio, 90, D_Standard, FALSE)>>, sc, st)) :
     sc \in Scores, st \in Statuses}
ScoreResponses == ClauseScoreResponses \cup ReadinessResponses

\* the sections the responseSchema lists as required
SectionNames == {"overview", "clauses", "dealReadiness", "riskAssessment", "commercialSummary"}
FullPayload == Payload(<<Clause(N_LeverageRatio, 90, D_Standard, FALSE)>>, 90, "Execution Ready")
Without(data, absent) == [k \in DOMAIN data |-> IF k \in absent THEN None ELSE data[k]]
WithRating(data, rating) ==
  [data EXCEPT !.riskAssessment = Some([overallRating |-> rating, summary |-> "summary"])]

\* a payload for every set of absent sections
SectionResponses == {JsonResponse(Without(FullPayload, a)) : a \in SUBSET SectionNames}
\* overallRating absent, empty, each of the three levels, and another word
Ratings == {None, Some(<<>>), Some(R_Low), Some(R_Medium), Some(R_High), Some(R_Severe)}
RatingResponses == {JsonResponse(WithRating(FullPayload, r)) : r \in Ratings}
NormalizeResponses ==
  {ThrownResponse, EmptyResponse, MalformedResponse} \cup SectionResponses \cup RatingResponses

\* clause lists of up to MaxClauses entries
MaxClauses == 2
SeqsUpTo(S, n) == UNION {[1..k -> S] : k \in 0..n}

T_benchmark == <<"L","M","A"," ","t","e","r","m">>
T_impact == <<"R","a","i","s","e","s"," ","c","o","s","t">>
\* the optional LMA fields: absent, empty, supplied
BenchmarkContexts == {None, Some(<<>>), Some(T_benchmark)}
PotentialImpacts == {None, Some(<<>>), Some(T_impact)}
LmaClauses ==
  {[Clause(N_FacilityAmount, 85, D_SlightlyAggressive, TRUE)
      EXCEPT !.lma_benchmark_context = b, !.potential_impact = p] :
     b \in BenchmarkContexts, p \in PotentialImpacts}
\* a name with each of the three covenant words alone, and one with none
NamedClauses ==
  {Clause(n, 90, D_Standard, FALSE) :
     n \in {N_LEVERAGE, N_FinancialCovenants, N_DebitRatio, N_EventsOfDefault}}
ClauseListResponses ==
  {JsonResponse(Payload(cl, 90, "Execution Ready")) :
     cl \in SeqsUpTo(LmaClauses, MaxClauses) \cup SeqsUpTo(NamedClauses, MaxClauses)}
OneText == {<<"3",".","5">>}

\* texts with the characters the CSV quoting is about
QuotingTexts ==
  {<<"\"">>,
   <<"a",",","b">>,
   <<"x","\n","y">>,
   <<"s","a","y"," ","\"","h","i","\"">>,
   <<"\"","\"">>,
   <<"\"","a","\"",",","\"","b","\"","\n">>,
   <<"r","a","t","i","o",","," ","\"","n","e","t","\"">>}
\* a clause with every text field holding t, and one with six different texts
AllFields(t) ==
  [Clause(t, 60, t, FALSE) EXCEPT
     !.extracted_text = t, !.explanation = t,
     !.lma_benchmark_context = Some(t), !.potential_impact = Some(t)]
MixedFields ==
  [Clause(<<"r","a","t","i","o",","," ","\"","n","e","t","\"">>, 60, <<"a",",","b">>, TRUE) EXCEPT
     !.extracted_text = <<"s","a","y"," ","\"","h","i","\"",",","\n","o","k">>,
     !.explanation = <<"x","\n","y">>,
     !.lma_benchmark_context = Some(<<"\"","\"">>),
     !.potential_impact = Some(<<"\"">>)]
QuotingResponses ==
  {JsonResponse(Payload(<<AllFields(t)>>, 72, "Ready with Review")) : t \in QuotingTexts}
    \cup {JsonResponse(Payload(<<MixedFields>>, 72, "Ready with Review"))}

Responses ==
  {ThrownResponse, EmptyResponse, MalformedResponse,
   JsonResponse(Payload(<<Clause(N_LeverageRatio, 60, D_Standard, FALSE),
                          Clause(N_EventsOfDefault, 90, D_AggressiveNonStandard, TRUE)>>,
                        72, "Execution Ready")),
   JsonResponse(Payload(<<Clause(N_FacilityAmount, 85, D_Standard, FALSE)>>,
                        85, "Execution Ready"))}

Program(names, docs, responses, texts) ==
  \/ processFileStart(names)
  \/ processFileDone(docs)
  \/ processFileFailed
  \/ editInputText(docs)
  \/ discard
  \/ handleAnalyze
  \/ generateContentSettle(responses)
  \/ handleAnalyzeSettle
  \/ onReset
  \/ editLimit(texts)
  \/ editActual(texts)

\* the export and news controls of the report
ReportControls(newsReplies) ==
  \/ handleExportCSV
  \/ handleExport
  \/ handleExportSettle
  \/ handleFetchNews
  \/ handleFetchNewsSettle(newsReplies)
  \/ toggleNewsCollapsed

\* replies to the news request: a thrown call, no text, a text with chunks
NewsReplies ==
  {[kind |-> "throw", text |-> None, chunks |-> <<>>],
   [kind |-> "ok", text |-> None, chunks |-> <<>>],
   [kind |-> "ok", text |-> Some("Margins tighten."),
    chunks |-> <<[web |-> None],
                 [web |-> Some([title |-> None, uri |-> "https://lma.example/a"])]>>]}

Next == Program(FileNames, Docs, Responses, FewTexts) \/ ReportControls(NewsReplies)
Spec == Init /\ [][Next]_vars

\* the program with a collaborator whose call settles and a promise whose
\* continuation then runs
NextAnalysis == Program({"facility.txt"}, OneDoc, Responses, OneText)
SpecAnalysisFair ==
  /\ Init
  /\ [][NextAnalysis]_vars
  /\ WF_vars(generateContentSettle(Responses))
  /\ WF_vars(handleAnalyzeSettle)

\* the Market Pulse panel
MarketPulse(queries, intelReplies, times) ==
  \/ setIntelQuery(queries)
  \/ handleIntelSearch
  \/ loadMarketPulseSettle(intelReplies, times)

IntelQueries == {"", "ESG"}

\* replies to a market-intelligence request: a thrown call, or a summary
\* of what was asked with one grounding chunk
IntelReplies ==
  [asked \in {finalQuery(Some(q)) : q \in IntelQueries} |->
  {[kind |-> "throw", text |-> None, chunks |-> <<>>],
   [kind |-> "ok", text |-> Some(<<"Summary of", asked>>),
    chunks |-> <<[web |-> Some([title |-> Some("LMA"), uri |-> "https://lma.example/a"])]>>]}]

\* minutes of toLocaleTimeString
Times == 1..2

\* the workspace with its Market Pulse panel
CovenantResponse ==
  {JsonResponse(Payload(<<Clause(N_LeverageRatio, 60, D_Standard, FALSE)>>,
                        72, "Execution Ready"))}
NextIntel ==
  \/ Program({"facility.txt"}, OneDoc, CovenantResponse, OneText)
  \/ MarketPulse(IntelQueries, IntelReplies, Times)
SpecIntel == Init /\ [][NextIntel]_vars

\* the slack cards rendered among the other events of the report
SlackValues == {<<>>, <<"3",".","5">>, <<"4">>}
NextRender ==
  \/ Program({"facility.txt"}, OneDoc, Responses, SlackValues)
  \/ handleExport
  \/ handleExportSettle
  \/ renderCard
SpecRender == Init /\ [][NextRender]_vars

\* the CSV export of every result of Responses
NextExport ==
  Program({"facility.txt"}, OneDoc, Responses \cup QuotingResponses, OneText) \/ handleExportCSV
SpecExport == Init /\ [][NextExport]_vars

\* the slack calculator over every name and every pair of input texts
NextSlack == Program({"facility.txt"}, OneDoc, NameResponses, SlackTexts)
SpecSlack == Init /\ [][NextSlack]_vars

\* the classifiers over every score
NextScores == Program({"facility.txt"}, OneDoc, ScoreResponses, FewTexts)
SpecScores == Init /\ [][NextScores]_vars

\* normalization over absent sections and over every kind of rating
NextNormalize == Program(FileNames, Docs, NormalizeResponses, FewTexts)
SpecNormalize == Init /\ [][NextNormalize]_vars

\* the clause mapping and the covenant filter over every short clause list
NextClauses == Program({"facility.txt"}, PaddedDocs, ClauseListResponses, OneText)
SpecClauses == Init /\ [][NextClauses]_vars

(***************************************************************************)
(* Properties of the covenant cards, stated for SpecSlack                  *)
(***************************************************************************)
\* the covenant cards on screen
shownCovenants == IF reportShown THEN financialCovenants(Get(result)) ELSE <<>>
CardNames == {shownCovenants[i].name : i \in 1..Len(shownCovenants)}
ValuesOf(nm) == cardValues(slackCalculations, nm)
LimitOf(nm) == parseFloat(ValuesOf(nm).limit)
ActualOf(nm) == parseFloat(ValuesOf(nm).actual)
CalcOf(nm) == cardCalculation(slackCalculations, nm)

\* exact arithmetic on finite numbers, by cross-multiplication
Signed(x) == x.s * x.n
IsFinite(x) == x.k = "fin"
IsDifference(x, a, b) ==
  IsFinite(x) /\ Signed(x) * (a.d * b.d) = (Signed(a) * b.d - Signed(b) * a.d) * x.d
IsPercentOf(p, sl, dn) ==
  IsFinite(p) /\ Signed(p) * (sl.d * Signed(dn)) = 100 * Signed(sl) * dn.d * p.d
\* a <= b on numbers that are not NaN
LessOrEqual(a, b) ==
  IF a.k = "inf" THEN a.s = -1 \/ (b.k = "inf" /\ b.s = 1)
  ELSE IF b.k = "inf" THEN b.s = 1
  ELSE Signed(a) * b.d <= Signed(b) * a.d
SameInfinity(a, b) == a.k = "inf" /\ b.k = "inf" /\ a.s = b.s

\* word (lower case) occurs in name, letter case ignored
ContainsIgnoringCase(name, word) ==
  \E i \in 1..Len(name) :
    /\ i + Len(word) - 1 <= Len(name)
    /\ \A j \in 1..Len(word) : LowerOf[name[i + j - 1]] = word[j]

T_3_5 == <<"3",".","5">>
T_2_1 == <<"2",".","1">>
T_abc == <<"a","b","c">>
T_0 == <<"0">>

\* C1: whenever both inputs of a card parse as numbers, the card has a
\* calculation with slack = limit - actual and percentage = slack / limit * 100
\* for a max-type clause, slack = actual - limit and percentage =
\* slack / actual * 100 for a min-type clause; limit 3.5 and actual 2.1 on
\* "Leverage Ratio" give max-type, slack 1.4, percentage 40.
C1_SlackAndPercentage ==
  \A nm \in CardNames :
    LET L == LimitOf(nm)
        A == ActualOf(nm)
        c == CalcOf(nm)
    IN  (~isNaN(L) /\ ~isNaN(A)) =>
          /\ IsSome(c)
          /\ LET r == Get(c)
                 dn == IF r.isMax THEN L ELSE A
             IN  /\ r.slack = (IF r.isMax THEN FSub(L, A) ELSE FSub(A, L))
                 /\ r.percentage = FMul(FDiv(r.slack, dn), Hundred)
                 /\ (IsFinite(L) /\ IsFinite(A)) =>
                      /\ IF r.isMax THEN IsDifference(r.slack, L, A)
                                    ELSE IsDifference(r.slack, A, L)
                      /\ ~IsZero(dn) => IsPercentOf(r.percentage, r.slack, dn)
                 /\ (nm = N_LeverageRatio /\ ValuesOf(nm).limit = T_3_5
                       /\ ValuesOf(nm).actual = T_2_1) =>
                      /\ r.isMax
                      /\ r.slack = Fin(1, 14, 10)
                      /\ r.percentage = Fin(1, 40, 1)

C1_Witness ==
  /\ N_LeverageRatio \in CardNames
  /\ ValuesOf(N_LeverageRatio) = [limit |-> T_3_5, actual |-> T_2_1]
  /\ IsSome(CalcOf(N_LeverageRatio))
  /\ Get(CalcOf(N_LeverageRatio)).percentage = Fin(1, 40, 1)

\* C2 as stated: isSafe is true exactly when slack >= 0; a max-type card is
\* safe iff actual <= limit, a min-type card iff actual >= limit; actual equal
\* to limit is always reported as safe.
C2_SafeIffWithinLimit ==
  \A nm \in CardNames :
    LET L == LimitOf(nm)
        A == ActualOf(nm)
        c == CalcOf(nm)
    IN  IsSome(c) =>
          /\ Get(c).isSafe <=> FGeZero(Get(c).slack)
          /\ Get(c).isMax => (Get(c).isSafe <=> LessOrEqual(A, L))
          /\ ~Get(c).isMax => (Get(c).isSafe <=> LessOrEqual(L, A))
          /\ (LessOrEqual(A, L) /\ LessOrEqual(L, A)) =>
               cardVerdict(c) = "Compliant"

\* C2 amended: the same, except when limit and actual are the same infinity;
\* then the slack is NaN and the card reports a breach.
C2_SafeIffWithinLimitUnlessSameInfinity ==
  \A nm \in CardNames :
    LET L == LimitOf(nm)
        A == ActualOf(nm)
        c == CalcOf(nm)
    IN  IsSome(c) =>
          /\ Get(c).isSafe <=> FGeZero(Get(c).slack)
          /\ ~SameInfinity(L, A) =>
               /\ Get(c).isMax => (Get(c).isSafe <=> LessOrEqual(A, L))
               /\ ~Get(c).isMax => (Get(c).isSafe <=> LessOrEqual(L, A))
               /\ (LessOrEqual(A, L) /\ LessOrEqual(L, A)) =>
                    /\ IsZero(Get(c).slack)
                    /\ cardVerdict(c) = "Compliant"
          /\ SameInfinity(L, A) =>
               /\ isNaN(Get(c).slack)
               /\ cardVerdict(c) = "Breach Risk"

C2_Witness ==
  \E nm \in CardNames :
    /\ ValuesOf(nm) = [limit |-> T_3_5, actual |-> T_3_5]
    /\ IsSome(CalcOf(nm))
    /\ IsZero(Get(CalcOf(nm)).slack)
    /\ cardVerdict(CalcOf(nm)) = "Compliant"

\* C3: a card is max-type if and only if its clause name, letter case
\* ignored, contains "leverage" or "debt", whatever else the name holds and
\* whatever the inputs are: "Interest Cover Ratio" is min-type, "Debt Service
\* Coverage Ratio" is max-type.
C3_MaxTypeIffLeverageOrDebt ==
  \A nm \in CardNames :
    IsSome(CalcOf(nm)) =>
      /\ Get(CalcOf(nm)).isMax <=>
           (ContainsIgnoringCase(nm, S_leverage) \/ ContainsIgnoringCase(nm, S_debt))
      /\ nm = N_InterestCoverRatio => ~Get(CalcOf(nm)).isMax
      /\ nm = N_DebtServiceCoverageRatio => Get(CalcOf(nm)).isMax

C3_Witness ==
  /\ N_DebtServiceCoverageRatio \in CardNames
  /\ IsSome(CalcOf(N_DebtServiceCoverageRatio))
  /\ Get(CalcOf(N_DebtServiceCoverageRatio)).isMax

\* a text with no numeric start: empty or blank, or its first character after
\* the leading blanks is none of a digit, a sign, a point or the I of Infinity
NoNumericStart(t) ==
  \/ trimStart(t) = <<>>
  \/ ~(IsDigit(trimStart(t)[1]) \/ trimStart(t)[1] \in {"+", "-", ".", "I"})

\* C4: when the limit text or the actual text of a card does not parse as a
\* number (such as "abc" or the empty text) the card has no calculation and
\* shows the neutral "enter values" state; a card never edited shows it too.
C4_UnparsableShowsNeutral ==
  \A nm \in CardNames :
    /\ (isNaN(LimitOf(nm)) \/ isNaN(ActualOf(nm))) =>
         /\ CalcOf(nm) = None
         /\ cardVerdict(CalcOf(nm)) = "Enter values to calculate slack"
    /\ (NoNumericStart(ValuesOf(nm).limit) \/ NoNumericStart(ValuesOf(nm).actual)) =>
         CalcOf(nm) = None
    /\ nm \notin DOMAIN slackCalculations =>
         cardVerdict(CalcOf(nm)) = "Enter values to calculate slack"

C4_Witness ==
  \E nm \in CardNames :
    /\ ValuesOf(nm) = [limit |-> T_2_1, actual |-> T_abc]
    /\ cardVerdict(CalcOf(nm)) = "Enter values to calculate slack"

\* C5: when the percentage's denominator is zero (the limit of a max-type
\* card, the actual of a min-type card) the card still has a calculation and
\* its percentage is +Infinity or -Infinity, or NaN when the slack is zero
\* too: never a finite number.
C5_ZeroDenominatorNotFinite ==
  \A nm \in CardNames :
    LET L == LimitOf(nm)
        A == ActualOf(nm)
        c == CalcOf(nm)
    IN  (~isNaN(L) /\ ~isNaN(A)) =>
          /\ IsSome(c)
          /\ IsZero(IF Get(c).isMax THEN L ELSE A) =>
               /\ ~IsFinite(Get(c).percentage)
               /\ isNaN(Get(c).percentage) <=> (IsZero(Get(c).slack) \/ isNaN(Get(c).slack))

C5_Witness ==
  /\ N_LeverageRatio \in CardNames
  /\ ValuesOf(N_LeverageRatio) = [limit |-> T_0, actual |-> T_0]
  /\ IsSome(CalcOf(N_LeverageRatio))
  /\ isNaN(Get(CalcOf(N_LeverageRatio)).percentage)
  /\ cardVerdict(CalcOf(N_LeverageRatio)) = "Compliant"

(***************************************************************************)
(* Properties of the classifiers and of the mapped result (SpecScores)     *)
(***************************************************************************)
resultClauses == IF IsSome(result) THEN Get(result).confidenceAnalysis ELSE <<>>
readinessScore == Get(Get(result).dealReadiness).score

BandLabels == {"High Confidence", "Moderate Review", "Critical / Low Confidence"}

PillTier(class) ==
  IF class = "text-emerald-600 bg-white border-emerald-300 shadow-sm" THEN "top"
  ELSE IF class = "text-amber-600 bg-white border-amber-300 shadow-sm" THEN "middle"
  ELSE IF class = "text-rose-600 bg-white border-rose-300 shadow-sm" THEN "bottom"
  ELSE "none"
GaugeTier(class) ==
  IF class = "text-emerald-500" THEN "top"
  ELSE IF class = "text-amber-500" THEN "middle"
  ELSE IF class = "text-rose-500" THEN "bottom"
  ELSE "none"

\* C6: the band shown for a clause is "High Confidence" iff its score >= 85,
\* "Moderate Review" iff 70 <= score < 85 and "Critical / Low Confidence" iff
\* score < 70; 85 is high, 84 and 70 are moderate, 69 is critical.
C6_ConfidenceBands ==
  \A i \in 1..Len(resultClauses) :
    LET sc == resultClauses[i].confidenceScore
        label == getScoreMeta(sc).label
    IN  /\ label \in BandLabels
        /\ label = "High Confidence" <=> sc >= 85
        /\ label = "Moderate Review" <=> (70 <= sc /\ sc < 85)
        /\ label = "Critical / Low Confidence" <=> sc < 70
        /\ sc = 85 => label = "High Confidence"
        /\ sc \in {84, 70} => label = "Moderate Review"
        /\ sc = 69 => label = "Critical / Low Confidence"

C6_Witness ==
  \E i \in 1..Len(resultClauses) :
    /\ resultClauses[i].confidenceScore = 84
    /\ getScoreMeta(resultClauses[i].confidenceScore).label = "Moderate Review"

\* C7 as stated: every score outside 0..100, below 0 or above 100, gets the
\* lowest band from getScoreMeta and the lowest tier from getReadinessColorPill.
C7_OutOfRangeIsLowest ==
  /\ \A i \in 1..Len(resultClauses) :
       resultClauses[i].confidenceScore \notin 0..100 =>
         getScoreMeta(resultClauses[i].confidenceScore).label = "Critical / Low Confidence"
  /\ (reportShown /\ readinessScore \notin 0..100) =>
       PillTier(getReadinessColorPill(readinessScore)) = "bottom"

\* C7 amended: the classifiers give every score a band; a score below 0 gets
\* the lowest band and tier, a score above 100 gets the highest band and tier.
C7_OutOfRangeBands ==
  /\ \A i \in 1..Len(resultClauses) :
       LET sc == resultClauses[i].confidenceScore
       IN  /\ getScoreMeta(sc).label \in BandLabels
           /\ sc < 0 => getScoreMeta(sc).label = "Critical / Low Confidence"
           /\ sc > 100 => getScoreMeta(sc).label = "High Confidence"
  /\ reportShown =>
       /\ PillTier(getReadinessColorPill(readinessScore)) \in {"top", "middle", "bottom"}
       /\ readinessScore < 0 => PillTier(getReadinessColorPill(readinessScore)) = "bottom"
       /\ readinessScore > 100 => PillTier(getReadinessColorPill(readinessScore)) = "top"

C7_Witness ==
  \E i \in 1..Len(resultClauses) :
    /\ resultClauses[i].confidenceScore > 100
    /\ getScoreMeta(resultClauses[i].confidenceScore).label = "High Confidence"

\* C8: the readiness pill is in the top tier iff score >= 85, the middle tier
\* iff 70 <= score <= 84, the bottom tier iff score < 70, and the gauge colour
\* is in the same tier as the pill.
C8_ReadinessTiersAgree ==
  reportShown =>
    LET pill == PillTier(getReadinessColorPill(readinessScore))
        gauge == GaugeTier(gaugeColour(readinessScore))
    IN  /\ pill = "top" <=> readinessScore >= 85
        /\ pill = "middle" <=> (70 <= readinessScore /\ readinessScore <= 84)
        /\ pill = "bottom" <=> readinessScore < 70
        /\ gauge = pill

C8_Witness ==
  /\ reportShown
  /\ readinessScore = 84
  /\ PillTier(getReadinessColorPill(readinessScore)) = "middle"
  /\ GaugeTier(gaugeColour(readinessScore)) = "middle"

\* C9: the status of an installed result, which the report displays, is the
\* one its score determines (>= 85 Execution Ready, 70-84 Ready with Review,
\* < 70 Not Execution Ready), whatever status the collaborator supplied.
C9_StatusFollowsScore ==
  reportShown =>
    displayedStatus(Get(result)) = readinessStatusRule(readinessScore)

\* C10: every clause of an installed result has reviewRequired equal to
\* (confidenceScore < 75 or the deviation is Aggressive/Non-Standard),
\* whatever review_required the collaborator supplied.
C10_ReviewRequiredRecomputed ==
  \A i \in 1..Len(resultClauses) :
    resultClauses[i].reviewRequired =
      reviewFlagRule(resultClauses[i].confidenceScore,
                     resultClauses[i].lmaComparison.deviations)

(***************************************************************************)
(* Properties of normalization and of installing the result                *)
(* (SpecNormalize)                                                         *)
(***************************************************************************)
\* the analysis call that a step settles: its index in inFlight
settles(i) ==
  /\ i \in 1..Len(inFlight)
  /\ IsSome(inFlight[i].reply)
  /\ inFlight' = RemoveAt(inFlight, i)
replyOf(i) == Get(inFlight[i].reply)
\* a reply with no body, an unparsable body, or a body without one of the
\* five required sections
lacksSection(resp) ==
  resp.kind # "json" \/ \E k \in SectionNames : resp.data[k] = None

\* C11: normalization fails whenever any one of the five required sections
\* (overview, clauses, dealReadiness, riskAssessment, commercialSummary) is
\* absent from the reply, an empty or absent body included: the call that
\* settles with such a reply installs no result and reports an error.
C11_MissingSectionFails ==
  [][\A i \in 1..Len(inFlight) :
       (settles(i) /\ lacksSection(replyOf(i))) =>
         (result' = None /\ IsSome(error'))]_vars

\* C12: whenever analyzeLoanDocument throws (collaborator error, unparsable
\* reply or a mapping that throws), handleAnalyze installs no result: result
\* keeps its previous value, null; error is set to a non-empty message; the
\* report view is not shown.
C12_FailureInstallsNothing ==
  [][\A i \in 1..Len(inFlight) :
       (settles(i) /\ analyzeLoanDocument(inFlight[i].text, replyOf(i)) = None) =>
         /\ result = None /\ result' = result
         /\ IsSome(error') /\ Get(error') # ""
         /\ ~reportShown']_vars
\* a failed analysis has been reported and the workspace is still shown
C12_Witness ==
  /\ error = Some(AnalyzeFailedMessage)
  /\ ~isLoading /\ inFlight = <<>>
  /\ result = None /\ workspaceShown /\ inputText # EmptyText

\* the three values of the RiskAssessment type
RatingLevels == {R_Low, R_Medium, R_High}

\* C13: the installed riskAssessment.overallRating is always one of Low,
\* Medium, High: a supplied Low, Medium or High is kept, and a missing, empty
\* or unrecognized rating (any other string) becomes Medium.
C13_RatingIsLowMediumHigh ==
  [][\A i \in 1..Len(inFlight) :
       (settles(i) /\ result' # result) =>
         LET supplied == Get(replyOf(i).data.riskAssessment).overallRating
             rating == Get(result').riskAssessment.overallRating
         IN  /\ rating \in RatingLevels
             /\ rating = (IF IsSome(supplied) /\ Get(supplied) \in RatingLevels
                            THEN Get(supplied) ELSE R_Medium)]_vars

(***************************************************************************)
(* Properties of the clause mapping (SpecClauses)                          *)
(***************************************************************************)
\* the clauses of the reply that call i settles with, and the mapped list
clausesOf(i) == Get(replyOf(i).data.clauses)
\* clause c of the reply is carried by entry e: the copied fields
carries(e, c) ==
  /\ e.name = c.clause_name
  /\ e.summary = c.extracted_text
  /\ e.confidenceScore = c.confidence_score
  /\ e.reason = c.explanation
  /\ e.lmaComparison.deviations = c.market_deviation

\* C14 (as claimed): the clause list is mapped entry by entry, length and
\* order preserved; entry i has name/summary/confidenceScore/reason from
\* clause_name/extracted_text/confidence_score/explanation and an
\* lmaComparison with deviations = market_deviation, standardBenchmark =
\* lma_benchmark_context when supplied and "Market standard position." when
\* absent, impact = potential_impact when supplied and "Review required for
\* specific commercial impact." when absent.
C14_ClauseMapping ==
  [][\A i \in 1..Len(inFlight) :
       (settles(i) /\ result' # result) =>
         LET cl == clausesOf(i)
             ca == Get(result').confidenceAnalysis
         IN  /\ Len(ca) = Len(cl)
             /\ \A k \in 1..Len(cl) :
                  /\ carries(ca[k], cl[k])
                  /\ ca[k].lmaComparison.standardBenchmark =
                       (IF IsSome(cl[k].lma_benchmark_context)
                          THEN Get(cl[k].lma_benchmark_context) ELSE DefaultBenchmark)
                  /\ ca[k].lmaComparison.impact =
                       (IF IsSome(cl[k].potential_impact)
                          THEN Get(cl[k].potential_impact) ELSE DefaultImpact)]_vars

\* C14 (amended): as above, with standardBenchmark = lma_benchmark_context
\* when that is supplied and not the empty string, the default text
\* otherwise (absent or empty), and impact likewise.
C14_ClauseMappingNonEmpty ==
  [][\A i \in 1..Len(inFlight) :
       (settles(i) /\ result' # result) =>
         LET cl == clausesOf(i)
             ca == Get(result').confidenceAnalysis
         IN  /\ Len(ca) = Len(cl)
             /\ \A k \in 1..Len(cl) :
                  /\ carries(ca[k], cl[k])
                  /\ ca[k].lmaComparison.standardBenchmark =
                       (IF cl[k].lma_benchmark_context \in {None, Some(<<>>)}
                          THEN DefaultBenchmark ELSE Get(cl[k].lma_benchmark_context))
                  /\ ca[k].lmaComparison.impact =
                       (IF cl[k].potential_impact \in {None, Some(<<>>)}
                          THEN DefaultImpact ELSE Get(cl[k].potential_impact))]_vars
\* two clauses installed in order: a supplied benchmark with a defaulted
\* impact, then a defaulted benchmark with a supplied impact
C14_Witness ==
  /\ reportShown
  /\ LET ca == Get(result).confidenceAnalysis
     IN  /\ Len(ca) = 2
         /\ ca[1].lmaComparison.standardBenchmark = T_benchmark
         /\ ca[1].lmaComparison.impact = DefaultImpact
         /\ ca[2].lmaComparison.standardBenchmark = DefaultBenchmark
         /\ ca[2].lmaComparison.impact = T_impact
         /\ ca[1].summary = T_provision /\ ca[1].reason = T_rationale

T_PaddedLMA == <<" ","L","M","A"," ">>

\* C15: rawText of the result is exactly the document text the analysis was
\* given, unmodified: the call is given the input text as it stands at the
\* click, and the result it installs carries that text character for
\* character.
C15_RawTextIsDocumentText ==
  [][/\ Len(inFlight') > Len(inFlight) =>
          inFlight'[Len(inFlight')].text = inputText
     /\ \A i \in 1..Len(inFlight) :
          (settles(i) /\ result' # result) =>
            Get(result').rawText = inFlight[i].text]_vars
\* a text with leading and trailing blanks was analysed and is the rawText
C15_Witness ==
  /\ reportShown
  /\ Get(result).rawText = T_PaddedLMA
  /\ trim(T_PaddedLMA) # T_PaddedLMA

\* C16: every clause's confidenceScore in the installed result lies in
\* [0, 100]: a payload value outside that range is clamped or makes the
\* analysis fail, and never reaches the result unchanged.
C16_ConfidenceScoreInRange ==
  \A k \in 1..Len(resultClauses) :
    /\ resultClauses[k].confidenceScore >= 0
    /\ resultClauses[k].confidenceScore <= 100

\* the positions of the clauses whose name holds one of the three words
covenantPositions(cs) ==
  {i \in 1..Len(cs) :
     \/ ContainsIgnoringCase(cs[i].name, S_covenant)
     \/ ContainsIgnoringCase(cs[i].name, S_leverage)
     \/ ContainsIgnoringCase(cs[i].name, S_ratio)}
\* the k-th smallest member of a set of positions
kthOf(P, k) == CHOOSE i \in P : Cardinality({j \in P : j < i}) = k - 1

\* C17: financialCovenants is exactly the clauses of result.confidenceAnalysis
\* whose name, letter case ignored, contains "covenant", "leverage" or
\* "ratio", in their original relative order and with duplicates kept; the
\* slack calculator section is shown iff that list is non-empty.
C17_CovenantFilter ==
  reportShown =>
    LET cs == Get(result).confidenceAnalysis
        P == covenantPositions(cs)
        covs == financialCovenants(Get(result))
    IN  /\ Len(covs) = Cardinality(P)
        /\ \A k \in 1..Len(covs) : covs[k] = cs[kthOf(P, k)]
        /\ slackSectionShown <=> (P # {})
\* a list whose first clause is filtered out and whose second is kept for
\* "ratio" alone, and the section it brings up
C17_Witness ==
  /\ reportShown
  /\ LET cs == Get(result).confidenceAnalysis
     IN  /\ Len(cs) = 2
         /\ cs[1].name = N_EventsOfDefault /\ cs[2].name = N_DebitRatio
         /\ Len(financialCovenants(Get(result))) = 1
  /\ slackSectionShown

(***************************************************************************)
(* Properties of the installed result (Spec) and of the CSV export         *)
(* (SpecExport)                                                            *)
(***************************************************************************)
\* C18: once installed, the AnalysisResult is never modified: every step
\* taken while it is installed (editing a limit or an actual, which
\* recomputes the slack, exporting CSV or PDF, fetching or collapsing the
\* news) leaves every field of result unchanged, and the only other change
\* is onReset discarding the whole value; a slack input is kept in the
\* report's own slackCalculations, never in result.
C18_ResultNeverModified ==
  [][IsSome(result) =>
       \/ result' = result
       \/ /\ result' = None
          /\ inputText' = EmptyText /\ fileName' = None
          /\ slackCalculations' = NoCalculations]_vars
\* the user has typed a limit, exported the CSV, started a PDF export and
\* fetched and collapsed the news, and the report is still shown
C18_Witness ==
  /\ reportShown
  /\ \E nm \in DOMAIN slackCalculations : slackCalculations[nm].limit # EmptyText
  /\ csvDownload = Some(csvContent(Get(result)))
  /\ isExporting
  /\ IsSome(newsData) /\ isNewsCollapsed

\* C19: result changes only from null to a value, once for each analysis
\* request that completes successfully, and from a value to null on onReset;
\* an installed result is never replaced by another one without a reset in
\* between.
C19_ResultInstalledAndResetOnly ==
  [][/\ result' # result =>
          \/ result = None /\ IsSome(result') /\ \E i \in 1..Len(inFlight) : settles(i)
          \/ IsSome(result) /\ result' = None
     /\ \A i \in 1..Len(inFlight) :
          (settles(i) /\ analyzeLoanDocument(inFlight[i].text, replyOf(i)) # None) =>
            (result = None /\ result' = analyzeLoanDocument(inFlight[i].text, replyOf(i)))]_vars
\* a result was installed and exported, the report was reset, and another
\* result is installed now
C19_Witness ==
  /\ reportShown
  /\ IsSome(csvDownload)
  /\ csvDownload # Some(csvContent(Get(result)))

\* a CSV text read by the standard quoting rule: records end at a line
\* feed outside quotes, fields at a comma outside quotes, and "" inside a
\* quoted field is one quote
RECURSIVE readQuoted(_, _, _)
readQuoted(s, i, acc) ==
  IF i > Len(s) THEN [field |-> acc, next |-> i]
  ELSE IF s[i] # "\"" THEN readQuoted(s, i + 1, Append(acc, s[i]))
  ELSE IF i < Len(s) /\ s[i + 1] = "\"" THEN readQuoted(s, i + 2, Append(acc, "\""))
  ELSE [field |-> acc, next |-> i + 1]
RECURSIVE readPlain(_, _, _)
readPlain(s, i, acc) ==
  IF i > Len(s) \/ s[i] \in {",", "\n"} THEN [field |-> acc, next |-> i]
  ELSE readPlain(s, i + 1, Append(acc, s[i]))
readField(s, i) ==
  IF i <= Len(s) /\ s[i] = "\"" THEN readQuoted(s, i + 1, <<>>) ELSE readPlain(s, i, <<>>)
RECURSIVE readRecord(_, _, _)
readRecord(s, i, row) ==
  LET f == readField(s, i)
  IN  IF f.next <= Len(s) /\ s[f.next] = ","
        THEN readRecord(s, f.next + 1, Append(row, f.field))
        ELSE [record |-> Append(row, f.field), next |-> f.next]
RECURSIVE readRecords(_, _, _)
readRecords(s, i, rows) ==
  LET r == readRecord(s, i, <<>>)
  IN  IF r.next <= Len(s)
        THEN readRecords(s, r.next + 1, Append(rows, r.record))
        ELSE Append(rows, r.record)
recordsOf(text) == readRecords(text, 1, <<>>)

\* the same reading, keeping each field as it stands in the file
RECURSIVE readRawRecord(_, _, _)
readRawRecord(s, i, row) ==
  LET f == readField(s, i)
  IN  IF f.next <= Len(s) /\ s[f.next] = ","
        THEN readRawRecord(s, f.next + 1, Append(row, SubSeq(s, i, f.next - 1)))
        ELSE [record |-> Append(row, SubSeq(s, i, f.next - 1)), next |-> f.next]
RECURSIVE readRawRecords(_, _, _)
readRawRecords(s, i, rows) ==
  LET r == readRawRecord(s, i, <<>>)
  IN  IF r.next <= Len(s)
        THEN readRawRecords(s, r.next + 1, Append(rows, r.record))
        ELSE Append(rows, r.record)
rawRecordsOf(text) == readRawRecords(text, 1, <<>>)

\* the integer a cell of decimal digits, with an optional minus, stands for
RECURSIVE valueOfDigits(_)
valueOfDigits(ds) ==
  IF ds = <<>> THEN 0
  ELSE 10 * valueOfDigits(SubSeq(ds, 1, Len(ds) - 1)) + IndexOf(DigitChars, ds[Len(ds)]) - 1
isDecimalOf(cell, n) ==
  /\ cell # <<>>
  /\ LET ds == IF cell[1] = "-" THEN Tail(cell) ELSE cell
     IN  /\ ds # <<>>
         /\ \A k \in 1..Len(ds) : InSeq(DigitChars, ds[k])
         /\ n = (IF cell[1] = "-" THEN 0 - valueOfDigits(ds) ELSE valueOfDigits(ds))

\* the record of one clause: its eight values in column order, the boolean
\* written YES or NO
holdsClause(rec, c) ==
  /\ Len(rec) = 8
  /\ rec[1] = c.name
  /\ isDecimalOf(rec[2], c.confidenceScore)
  /\ rec[3] = (IF c.reviewRequired THEN <<"Y","E","S">> ELSE <<"N","O">>)
  /\ rec[4] = c.summary
  /\ rec[5] = c.reason
  /\ rec[6] = c.lmaComparison.standardBenchmark
  /\ rec[7] = c.lmaComparison.deviations
  /\ rec[8] = c.lmaComparison.impact
\* the exported file has the given header, then one record per clause of
\* the result, in the result's order
exportHas(header) ==
  csvDownload' # csvDownload =>
    \A recs \in {recordsOf(Get(csvDownload'))} :
    \A ca \in {Get(result).confidenceAnalysis} :
        /\ Len(recs) = 1 + Len(ca)
        /\ recs[1] = header
        /\ \A k \in 1..Len(ca) : holdsClause(recs[k + 1], ca[k])

ClaimedColumns ==
  <<<<"C","l","a","u","s","e"," ","N","a","m","e">>,
    <<"C","o","n","f","i","d","e","n","c","e"," ","S","c","o","r","e">>,
    <<"R","e","v","i","e","w"," ","R","e","q","u","i","r","e","d">>,
    <<"P","r","o","v","i","s","i","o","n"," ","S","u","m","m","a","r","y">>,
    <<"A","u","d","i","t"," ","L","o","g","i","c">>,
    <<"M","a","r","k","e","t"," ","S","t","a","n","d","a","r","d"," ","C","o","n","t","e","x","t">>,
    <<"D","e","v","i","a","t","i","o","n"," ","A","n","a","l","y","s","i","s">>,
    <<"C","o","u","n","t","e","r","p","a","r","t","y"," ","I","m","p","a","c","t">>>>
ExportedColumns ==
  <<<<"C","l","a","u","s","e"," ","N","a","m","e">>,
    <<"C","o","n","f","i","d","e","n","c","e"," ","S","c","o","r","e"," ","(","%",")">>,
    <<"R","e","v","i","e","w"," ","R","e","q","u","i","r","e","d">>,
    <<"P","r","o","v","i","s","i","o","n"," ","S","u","m","m","a","r","y">>,
    <<"A","u","d","i","t"," ","L","o","g","i","c">>,
    <<"M","a","r","k","e","t"," ","S","t","a","n","d","a","r","d"," ","C","o","n","t","e","x","t">>,
    <<"D","e","v","i","a","t","i","o","n"," ","A","n","a","l","y","s","i","s">>,
    <<"C","o","u","n","t","e","r","p","a","r","t","y"," ","I","m","p","a","c","t">>>>

\* C20 (as claimed): the first line of the CSV export is the header with
\* exactly the columns Clause Name, Confidence Score, Review Required,
\* Provision Summary, Audit Logic, Market Standard Context, Deviation
\* Analysis, Counterparty Impact in that order, followed by exactly one row
\* per clause in the order of result.confidenceAnalysis, each holding that
\* clause's name, confidenceScore, reviewRequired, summary, reason,
\* standardBenchmark, deviations and impact in the same column order.
C20_CsvHeaderAndRows == [][exportHas(ClaimedColumns)]_vars

\* C20 (amended): the same, with the second column headed
\* "Confidence Score (%)" and reviewRequired written as YES or NO.
C20_CsvHeaderWithPercentAndRows == [][exportHas(ExportedColumns)]_vars
\* the file exported from a result of two clauses: three records
C20_Witness ==
  /\ reportShown
  /\ Len(Get(result).confidenceAnalysis) = 2
  /\ csvDownload = Some(csvContent(Get(result)))
  /\ Len(recordsOf(Get(csvDownload))) = 3

\* the six text values of a clause, with their columns
TextColumns == {1, 4, 5, 6, 7, 8}
textValue(c, col) ==
  IF col = 1 THEN c.name
  ELSE IF col = 4 THEN c.summary
  ELSE IF col = 5 THEN c.reason
  ELSE IF col = 6 THEN c.lmaComparison.standardBenchmark
  ELSE IF col = 7 THEN c.lmaComparison.deviations
  ELSE c.lmaComparison.impact
quotesIn(t) == Cardinality({j \in 1..Len(t) : t[j] = "\""})
\* raw is t wrapped in double quotes with every quote of t doubled
isQuotedForm(raw, t) ==
  /\ Len(raw) = Len(t) + quotesIn(t) + 2
  /\ raw[1] = "\"" /\ raw[Len(raw)] = "\""
  /\ quotesIn(raw) = 2 * quotesIn(t) + 2
  /\ \A j \in 1..Len(t) :
       LET at == 1 + j + quotesIn(SubSeq(t, 1, j - 1))
       IN  raw[at] = t[j] /\ (t[j] = "\"" => raw[at + 1] = "\"")

\* C21: every text field the CSV export writes (name, summary, reason,
\* standardBenchmark, deviations, impact), whatever its value, double
\* quotes, commas and newlines included, stands in the file wrapped in
\* double quotes with each embedded double quote doubled, and reading the
\* exported row by the standard CSV quoting rule gives back the original
\* string and the original number of columns.
C21_CsvQuotingRoundTrip ==
  [][csvDownload' # csvDownload =>
       \A recs \in {recordsOf(Get(csvDownload'))} :
       \A raws \in {rawRecordsOf(Get(csvDownload'))} :
       \A ca \in {Get(result).confidenceAnalysis} :
           /\ Len(recs) = 1 + Len(ca)
           /\ \A k \in 1..Len(ca) :
                /\ Len(recs[k + 1]) = 8
                /\ \A col \in TextColumns :
                     /\ recs[k + 1][col] = textValue(ca[k], col)
                     /\ isQuotedForm(raws[k + 1][col], textValue(ca[k], col))]_vars
\* an exported file whose one clause has a summary with a quote, a comma
\* and a line feed in it
C21_Witness ==
  /\ reportShown
  /\ csvDownload = Some(csvContent(Get(result)))
  /\ Len(Get(result).confidenceAnalysis) = 1
  /\ LET t == Get(result).confidenceAnalysis[1].summary
     IN  /\ \E j \in 1..Len(t) : t[j] = "\""
         /\ \E j \in 1..Len(t) : t[j] = ","
         /\ \E j \in 1..Len(t) : t[j] = "\n"

shownValues(sc, i) == cardValues(sc, shownCovenants[i].name)
\* a step that edits an input of a card of the report on screen
slackEdit == reportShown /\ result' = result /\ slackCalculations' # slackCalculations
\* exactly one of the two inputs differs
oneInputChanged(before, after) ==
  \/ before.limit # after.limit /\ before.actual = after.actual
  \/ before.limit = after.limit /\ before.actual # after.actual

\* C23 as claimed: an edit changes one input of one card and leaves the
\* other input and both inputs of every other card alone, also where
\* another card belongs to a clause of the same name.
C23_CardsIndependent ==
  [][slackEdit =>
       \E i \in 1..Len(shownCovenants) :
         /\ oneInputChanged(shownValues(slackCalculations, i),
                            shownValues(slackCalculations', i))
         /\ \A j \in 1..Len(shownCovenants) \ {i} :
              shownValues(slackCalculations', j) = shownValues(slackCalculations, j)]_vars

\* C23: an edit changes one input of the cards of one clause name, the
\* same for each of them, and leaves the other input of those cards and
\* both inputs of every card of another name alone.
C23_CardsIndependentByName ==
  [][slackEdit =>
       \E nm \in CardNames :
         /\ oneInputChanged(ValuesOf(nm), cardValues(slackCalculations', nm))
         /\ \A j \in 1..Len(shownCovenants) :
              shownValues(slackCalculations', j) =
                IF shownCovenants[j].name = nm
                  THEN cardValues(slackCalculations', nm)
                  ELSE shownValues(slackCalculations, j)]_vars

\* two cards of different names, one with its limit typed after the other's
C23_Witness ==
  /\ Len(shownCovenants) = 2
  /\ shownCovenants[1].name # shownCovenants[2].name
  /\ shownValues(slackCalculations, 1).limit # EmptyText
  /\ shownValues(slackCalculations, 1).actual = EmptyText
  /\ shownValues(slackCalculations, 2).limit # EmptyText

(***************************************************************************)
(* Properties of the analysis request among the other events (Spec)        *)
(***************************************************************************)
\* the input text is empty or only white space
blankInput == trim(inputText) = EmptyText

\* C24: a click on Analyze with a blank text changes nothing, a click
\* while a request is outstanding starts no second one, and at most one
\* analyzeLoanDocument call is outstanding at any moment.
C24_OneAnalysisAtATime ==
  /\ Len(inFlight) <= 1
  /\ blankInput => ~ENABLED (handleAnalyze /\ vars' # vars)
  /\ Len(inFlight) > 0 => ~ENABLED (handleAnalyze /\ inFlight' # inFlight)

\* a request is outstanding and the textarea now holds only a space
C24_Witness ==
  /\ workspaceShown
  /\ Len(inFlight) = 1
  /\ inputText # EmptyText
  /\ blankInput

(***************************************************************************)
(* Properties of a request whose collaborator call settles                 *)
(* (SpecAnalysisFair)                                                      *)
(***************************************************************************)
\* a step that starts a request, and one in which a request settles
analysisStarts == Len(inFlight') > Len(inFlight)
analysisSettles == Len(inFlight') < Len(inFlight)

\* C25: isLoading is true exactly while a request is outstanding, every
\* request that is started settles, the settling either sets result and
\* leaves error alone or sets error to a non-empty message and leaves
\* result alone, and starting a request clears the error.
C25_RequestCompletes ==
  /\ [](isLoading <=> inFlight # <<>>)
  /\ isLoading ~> ~isLoading
  /\ [][/\ analysisSettles =>
            \/ IsSome(result') /\ result' # result /\ error' = error
            \/ /\ IsSome(error') /\ Get(error') # ""
               /\ result' = result
               /\ \E i \in 1..Len(inFlight) : settles(i) /\ analyzeLoanDocument(inFlight[i].text, replyOf(i)) = None
        /\ analysisStarts => error' = None]_vars

\* a request has settled as a failure
C25_Witness ==
  /\ ~isLoading
  /\ inFlight = <<>>
  /\ result = None
  /\ error = Some(AnalyzeFailedMessage)

(***************************************************************************)
(* Properties of the text a request refers to (Spec)                       *)
(***************************************************************************)
\* C26: a request carries the input text of the moment of the click, a
\* change of the input text while it is outstanding neither removes nor
\* alters it, and the result it installs has that text as rawText.
C26_RawTextIsTextAtClick ==
  [][/\ analysisStarts => inFlight'[Len(inFlight')].text = inputText
     /\ inputText' # inputText => inFlight' = inFlight
     /\ \A i \in 1..Len(inFlight) :
          (settles(i) /\ result' # result) =>
            IsSome(result') /\ Get(result').rawText = inFlight[i].text]_vars

\* the report is shown for a text that is no longer in the textarea
C26_Witness ==
  /\ reportShown
  /\ Get(result).rawText # EmptyText
  /\ inputText # Get(result).rawText

(***************************************************************************)
(* Properties of the error message (Spec)                                  *)
(***************************************************************************)
\* C27: while a result is installed the error is null, whatever the order
\* in which file reads and analyses complete, so the workspace that New
\* Audit returns to shows no error message.
C27_NoErrorWithResult ==
  /\ [](IsSome(result) => error = None)
  /\ [][(IsSome(result) /\ result' = None) => error' = None]_vars

(***************************************************************************)
(* Properties of the Market Pulse panel (SpecIntel)                        *)
(***************************************************************************)
\* the requests that have not settled yet
pendingIntel == {i \in 1..Len(intelCalls) : intelCalls[i].outcome = None}
\* a step in which the i-th request settles with the given outcome
intelSettles(i, kind) ==
  /\ i \in pendingIntel
  /\ intelCalls' = [intelCalls EXCEPT ![i].outcome = Some(kind)]

\* C28: isIntelLoading is true while any market-intelligence request is
\* outstanding, it falls only when none remains, and a failed request
\* leaves marketIntel and lastUpdated as they were.
C28_LoadingWhileAnyInFlight ==
  /\ [](pendingIntel # {} => isIntelLoading)
  /\ [][/\ (isIntelLoading /\ ~isIntelLoading') => pendingIntel' = {}
        /\ \A i \in pendingIntel :
             intelSettles(i, "throw") =>
               marketIntel' = marketIntel /\ lastUpdated' = lastUpdated]_vars

\* the summary the collaborator returns for the i-th request
responseTo(i) == Some(<<"Summary of", finalQuery(intelCalls[i].query)>>)

\* C29: once every request issued has settled successfully, marketIntel
\* is the response to the request issued last.
C29_LastQueryWins ==
  (/\ Len(intelCalls) > 1
   /\ \A i \in 1..Len(intelCalls) : intelCalls[i].outcome = Some("ok")) =>
    /\ IsSome(marketIntel)
    /\ Get(marketIntel).summary = responseTo(Len(intelCalls))

(***************************************************************************)
(* Properties of the percentage and the bar of a slack card (SpecSlack)    *)
(***************************************************************************)
\* C30: on every card with a calculation, a safe verdict comes with a
\* percentage of at least zero and an unsafe one with a percentage below
\* zero, and the width of the bar lies between 0 and 100.
C30_PercentageSignAgrees ==
  \A nm \in CardNames :
    IsSome(CalcOf(nm)) =>
      LET c == Get(CalcOf(nm))
      IN  /\ c.isSafe => FGeZero(c.percentage)
          /\ ~c.isSafe => FLess(c.percentage, Fin(1, 0, 1))
          /\ ~isNaN(barWidth(c))
          /\ ~FLess(barWidth(c), Fin(1, 0, 1))
          /\ ~FLess(Hundred, barWidth(c))

====
